---- MODULE Spec2Model ----
(***************************************************************************)
(* State/I-O coordination layer of the incidents client:                   *)
(*   - Store (core/store/store.js): dispatch pipeline, subscribers          *)
(*   - reducers (core/store/reducers.js)                                    *)
(*   - worker bridge (core/workers/worker-bridge.js): sendToWorker          *)
(*   - API worker (core/workers/api.worker.js): processRequest and cache    *)
(*   - ApiService facade (core/services/api.service.js)                     *)
(*                                                                         *)
(* The main thread is one event loop: microtasks (promise reactions) run   *)
(* to completion before the next task (worker message, timer).  The worker *)
(* is a second event loop that shares only messages with the main thread.  *)
(***************************************************************************)
EXTENDS Integers, Sequences, FiniteSets, TLC

VARIABLES
  \* ---- Store (store.js) ----
  development,      \* process.env.NODE_ENV === "development"
  state,            \* Store.state
  subscribers,      \* Store.subscribers (a Set of functions, in insertion order)
  initial,          \* the module's initialState object
  lastPass,         \* the most recent run of notifySubscribers, if any
  middlewares,      \* Store.middlewares (an array of middleware functions)
  actionCounter,    \* Store.actionCounter
  dispatches,       \* one record per accepted dispatch call, indexed by _id
  lastCall,         \* the most recent call of a Store method and its outcome
  localStorage,     \* localStorage item "darkMode"
  \* ---- wall clock ----
  now,              \* Date.now() (shared by both execution contexts)
  ticks,            \* number of clock advances so far
  \* ---- worker bridge (worker-bridge.js) ----
  workers,          \* Map name -> worker context index
  pendingCallbacks, \* Map messageId -> {resolve, reject} (owner call index)
  messageIdCounter, \* messageIdCounter
  calls,            \* one record per sendToWorker invocation (its promise)
  \* ---- worker contexts (api.worker.js) ----
  contexts,         \* spawned Worker contexts: inbox, outbox, apiCache, ...
  \* ---- ApiService facade (api.service.js) ----
  pendingRequests,  \* ApiServiceClass.pendingRequests (a Set of request ids)
  requests          \* one record per facade operation invocation

storeVars  == <<development, state, subscribers, initial, lastPass,
                middlewares, actionCounter, dispatches, lastCall, localStorage>>
clockVars  == <<now, ticks>>
bridgeVars == <<workers, pendingCallbacks, messageIdCounter, calls>>
workerVars == <<contexts>>
facadeVars == <<pendingRequests, requests>>
vars == <<storeVars, clockVars, bridgeVars, workerVars, facadeVars>>

-----------------------------------------------------------------------------
(* Bounds of the model *)

MaxActions  == 3     \* accepted dispatch calls
MaxCalls    == 2     \* direct sendToWorker invocations
MaxMessages == 3     \* messages posted to a worker context directly
MaxContexts == 2     \* Worker contexts spawned
MaxRequests == 2     \* facade operation invocations
MaxTicks    == 1     \* clock advances
MaxReductions == 4   \* applications of the composed reducer
MaxMiddlewares == 2  \* middlewares registered on one store
TickSmall   == 10000 \* a clock advance shorter than every program delay
StartTime   == 1000000 \* Date.now() when the page loads

-----------------------------------------------------------------------------
(* JavaScript values.  A value carries its typeof tag k and its content v. *)

Undef   == [k |-> "undefined", v |-> 0]
Null    == [k |-> "null", v |-> 0]
Bool(b) == [k |-> "boolean", v |-> b]
Str(s)  == [k |-> "string", v |-> s]
Num(n)  == [k |-> "number", v |-> n]
Obj(r)  == [k |-> "object", v |-> r]
Arr(s)  == [k |-> "array", v |-> s]

\* typeof x
TypeOf(x) == IF x.k \in {"null", "array"} THEN "object" ELSE x.k

\* ToBoolean(x)
Truthy(x) ==
  CASE x.k = "undefined" -> FALSE
    [] x.k = "null"      -> FALSE
    [] x.k = "boolean"   -> x.v
    [] x.k = "string"    -> x.v # ""
    [] x.k = "number"    -> x.v # 0
    [] OTHER             -> TRUE

\* a === b for primitives
StrictEq(a, b) == a.k = b.k /\ a.v = b.v

\* a || b
Or(a, b) == IF Truthy(a) THEN a ELSE b

\* !x as a JavaScript boolean
Not(x) == Bool(~Truthy(x))

-----------------------------------------------------------------------------
(* actions.js *)

\* ActionTypes
ActionTypes == [
  SET_LOADING |-> "ui/setLoading",
  SET_DARK_MODE |-> "ui/setDarkMode",
  TOGGLE_MENU |-> "ui/toggleMenu",
  SET_FILTER_STATUS |-> "ui/setFilterStatus",
  LOAD_INCIDENTS |-> "incidents/loadIncidents",
  SET_INCIDENTS |-> "incidents/setIncidents",
  ADD_INCIDENT |-> "incidents/addIncident",
  UPDATE_INCIDENT |-> "incidents/updateIncident",
  DELETE_INCIDENT |-> "incidents/deleteIncident",
  SET_CURRENT_INCIDENT |-> "incidents/setCurrentIncident",
  CLEAR_CURRENT_INCIDENT |-> "incidents/clearCurrentIncident",
  ADD_NOTIFICATION |-> "notifications/addNotification",
  REMOVE_NOTIFICATION |-> "notifications/removeNotification",
  MARK_NOTIFICATION_DISPLAYED |-> "notifications/markNotificationDisplayed",
  SET_ERROR |-> "errors/setError",
  CLEAR_ERROR |-> "errors/clearError" ]

\* createAction(type)(payload): an object {type, payload}
createAction(type, payload) == Obj([type |-> Str(type), payload |-> payload])

\* the exported `actions` object: its property names, each mapped to the
\* `type` property of the function stored there (createAction sets it; the
\* show* helpers are plain functions without one)
actions == [
  setLoading |-> Str(ActionTypes.SET_LOADING),
  setDarkMode |-> Str(ActionTypes.SET_DARK_MODE),
  toggleMenu |-> Str(ActionTypes.TOGGLE_MENU),
  setFilterStatus |-> Str(ActionTypes.SET_FILTER_STATUS),
  loadIncidents |-> Str(ActionTypes.LOAD_INCIDENTS),
  setIncidents |-> Str(ActionTypes.SET_INCIDENTS),
  addIncident |-> Str(ActionTypes.ADD_INCIDENT),
  updateIncident |-> Str(ActionTypes.UPDATE_INCIDENT),
  deleteIncident |-> Str(ActionTypes.DELETE_INCIDENT),
  setCurrentIncident |-> Str(ActionTypes.SET_CURRENT_INCIDENT),
  clearCurrentIncident |-> Str(ActionTypes.CLEAR_CURRENT_INCIDENT),
  addNotification |-> Str(ActionTypes.ADD_NOTIFICATION),
  removeNotification |-> Str(ActionTypes.REMOVE_NOTIFICATION),
  markNotificationDisplayed |-> Str(ActionTypes.MARK_NOTIFICATION_DISPLAYED),
  setError |-> Str(ActionTypes.SET_ERROR),
  clearError |-> Str(ActionTypes.CLEAR_ERROR),
  showSuccessNotification |-> Undef,
  showErrorNotification |-> Undef,
  showWarningNotification |-> Undef,
  showInfoNotification |-> Undef ]

\* the show*Notification helpers: the id is Date.now()
showNotification(message, type, duration, time) ==
  createAction(ActionTypes.ADD_NOTIFICATION,
               Obj([id |-> Num(time), message |-> Str(message),
                    type |-> Str(type), duration |-> Num(duration),
                    displayed |-> Bool(FALSE)]))

showSuccessNotification(message, time) ==
  showNotification(message, "success", 5000, time)

showErrorNotification(message, time) ==
  showNotification(message, "error", 7000, time)

showWarningNotification(message, time) ==
  showNotification(message, "warning", 6000, time)

showInfoNotification(message, time) ==
  showNotification(message, "info", 5000, time)

setLoading(b) == createAction(ActionTypes.SET_LOADING, Bool(b))
setError(e)   == createAction(ActionTypes.SET_ERROR, Obj(e))

-----------------------------------------------------------------------------
(* Objects *)

\* o.p (undefined when the property is absent)
Get(o, p) == IF o.k = "object" /\ p \in DOMAIN o.v THEN o.v[p] ELSE Undef

\* {...a, ...b} on the property maps of two objects
Spread(a, b) ==
  [p \in (DOMAIN a) \cup (DOMAIN b) |-> IF p \in DOMAIN b THEN b[p] ELSE a[p]]

\* array.map(f) and array.filter(keep) on sequences
FilterSeq(s, keep(_)) == SelectSeq(s, keep)

MapSeq(s, f(_)) == [i \in 1..Len(s) |-> f(s[i])]

-----------------------------------------------------------------------------
(* reducers.js *)

\* a default parameter value: `state = d` in a reducer's signature
DefaultParam(x, d) == IF x = Undef THEN d ELSE x

\* uiReducer(state, action)
uiReducer(given, action) ==
  LET slice == DefaultParam(given, Obj([p \in {} |-> Undef]))
      type == Get(action, "type").v
      payload == Get(action, "payload")
  IN CASE type = ActionTypes.SET_LOADING ->
            Obj(Spread(slice.v, [loading |-> payload]))
       [] type = ActionTypes.SET_DARK_MODE ->
            Obj(Spread(slice.v, [darkMode |-> payload]))
       [] type = ActionTypes.TOGGLE_MENU ->
            Obj(Spread(slice.v,
                [menuOpen |-> IF payload.k # "undefined" THEN payload
                              ELSE Not(Get(slice, "menuOpen"))]))
       [] type = ActionTypes.SET_FILTER_STATUS ->
            Obj(Spread(slice.v, [filterStatus |-> payload]))
       [] OTHER -> slice

\* incidentsReducer whose update also appends the payload
incidentsReducerUpdateAppends(given, action) ==
  LET slice == DefaultParam(given, Arr(<<>>))
      type == Get(action, "type").v
      payload == Get(action, "payload")
      Upd(incident) == IF StrictEq(Get(incident, "id"), Get(payload, "id"))
                       THEN Obj(Spread(incident.v, payload.v))
                       ELSE incident
      Keep(incident) == ~StrictEq(Get(incident, "id"), payload)
  IN CASE type = ActionTypes.SET_INCIDENTS -> Or(payload, Arr(<<>>))
       [] type = ActionTypes.ADD_INCIDENT -> Arr(Append(slice.v, payload))
       [] type = ActionTypes.UPDATE_INCIDENT ->
            Arr(Append(MapSeq(slice.v, Upd), payload))
       [] type = ActionTypes.DELETE_INCIDENT -> Arr(FilterSeq(slice.v, Keep))
       [] OTHER -> slice

\* incidentsReducer whose add puts the payload first
incidentsReducerPrepends(given, action) ==
  LET slice == DefaultParam(given, Arr(<<>>))
      type == Get(action, "type").v
      payload == Get(action, "payload")
      Upd(incident) == IF StrictEq(Get(incident, "id"), Get(payload, "id"))
                       THEN Obj(Spread(incident.v, payload.v))
                       ELSE incident
      Keep(incident) == ~StrictEq(Get(incident, "id"), payload)
  IN CASE type = ActionTypes.SET_INCIDENTS -> Or(payload, Arr(<<>>))
       [] type = ActionTypes.ADD_INCIDENT -> Arr(<<payload>> \o slice.v)
       [] type = ActionTypes.UPDATE_INCIDENT -> Arr(MapSeq(slice.v, Upd))
       [] type = ActionTypes.DELETE_INCIDENT -> Arr(FilterSeq(slice.v, Keep))
       [] OTHER -> slice

\* incidentsReducer(state, action)
incidentsReducer(given, action) ==
  LET slice == DefaultParam(given, Arr(<<>>))
      type == Get(action, "type").v
      payload == Get(action, "payload")
      Upd(incident) == IF StrictEq(Get(incident, "id"), Get(payload, "id"))
                       THEN Obj(Spread(incident.v, payload.v))
                       ELSE incident
      Keep(incident) == ~StrictEq(Get(incident, "id"), payload)
  IN CASE type = ActionTypes.SET_INCIDENTS -> Or(payload, Arr(<<>>))
       [] type = ActionTypes.ADD_INCIDENT -> Arr(Append(slice.v, payload))
       [] type = ActionTypes.UPDATE_INCIDENT -> Arr(MapSeq(slice.v, Upd))
       [] type = ActionTypes.DELETE_INCIDENT -> Arr(FilterSeq(slice.v, Keep))
       [] OTHER -> slice

\* currentIncidentReducer without its UPDATE_INCIDENT case
currentIncidentReducerNoUpdate(given, action) ==
  LET slice == DefaultParam(given, Null)
      type == Get(action, "type").v
      payload == Get(action, "payload")
  IN CASE type = ActionTypes.SET_CURRENT_INCIDENT -> payload
       [] type = ActionTypes.CLEAR_CURRENT_INCIDENT -> Null
       [] type = ActionTypes.DELETE_INCIDENT ->
            IF Truthy(slice) /\ StrictEq(Get(slice, "id"), payload)
            THEN Null
            ELSE slice
       [] OTHER -> slice

\* currentIncidentReducer(state, action)
currentIncidentReducer(given, action) ==
  LET slice == DefaultParam(given, Null)
      type == Get(action, "type").v
      payload == Get(action, "payload")
  IN CASE type = ActionTypes.SET_CURRENT_INCIDENT -> payload
       [] type = ActionTypes.CLEAR_CURRENT_INCIDENT -> Null
       [] type = ActionTypes.UPDATE_INCIDENT ->
            IF Truthy(slice) /\ StrictEq(Get(slice, "id"), Get(payload, "id"))
            THEN Obj(Spread(slice.v, payload.v))
            ELSE slice
       [] type = ActionTypes.DELETE_INCIDENT ->
            IF Truthy(slice) /\ StrictEq(Get(slice, "id"), payload)
            THEN Null
            ELSE slice
       [] OTHER -> slice

\* notificationsReducer(state, action)
notificationsReducer(given, action) ==
  LET slice == DefaultParam(given, Arr(<<>>))
      type == Get(action, "type").v
      payload == Get(action, "payload")
      Keep(n) == ~StrictEq(Get(n, "id"), payload)
      Mark(n) == IF StrictEq(Get(n, "id"), payload)
                 THEN Obj(Spread(n.v, [displayed |-> Bool(TRUE)]))
                 ELSE n
  IN CASE type = ActionTypes.ADD_NOTIFICATION -> Arr(Append(slice.v, payload))
       [] type = ActionTypes.REMOVE_NOTIFICATION ->
            Arr(FilterSeq(slice.v, Keep))
       [] type = ActionTypes.MARK_NOTIFICATION_DISPLAYED ->
            Arr(MapSeq(slice.v, Mark))
       [] OTHER -> slice

\* errorReducer(state, action)
errorReducer(given, action) ==
  LET slice == DefaultParam(given, Null)
      type == Get(action, "type").v
      payload == Get(action, "payload")
  IN CASE type = ActionTypes.SET_ERROR -> payload
       [] type = ActionTypes.CLEAR_ERROR -> Null
       [] OTHER -> slice

\* loadingReducer(state, action)
loadingReducer(given, action) ==
  LET slice == DefaultParam(given, Bool(FALSE))
      type == Get(action, "type").v
      payload == Get(action, "payload")
  IN CASE type = ActionTypes.SET_LOADING -> payload
       [] OTHER -> slice

\* the composed reducer without the loop that keeps the keys that have no
\* reducer
reducerDropsUnregistered(st, action) ==
  [ loading         |-> loadingReducer(st.loading, action),
    incidents       |-> incidentsReducer(st.incidents, action),
    currentIncident |-> currentIncidentReducer(st.currentIncident, action),
    notifications   |-> notificationsReducer(st.notifications, action),
    error           |-> errorReducer(st.error, action),
    ui              |-> uiReducer(st.ui, action),
    _actionLog      |-> <<>> ]

\* createReducer(): combineReducers over the six slices; a key without a
\* reducer (_actionLog) is carried over
reducer(st, action) ==
  [ loading         |-> loadingReducer(st.loading, action),
    incidents       |-> incidentsReducer(st.incidents, action),
    currentIncident |-> currentIncidentReducer(st.currentIncident, action),
    notifications   |-> notificationsReducer(st.notifications, action),
    error           |-> errorReducer(st.error, action),
    ui              |-> uiReducer(st.ui, action),
    _actionLog      |-> st._actionLog ]

-----------------------------------------------------------------------------
(* store.js *)

\* the functions callers subscribe; sub2 throws whenever it is called
AllSubscribers == {"sub1", "sub2"}
ThrowingSubscribers == {"sub2"}
\* the function NotificationService.init() subscribes
ServiceSubscribers == {"notificationService"}
Subscribable == AllSubscribers \cup ServiceSubscribers
Fn(name) == [k |-> "function", v |-> name]

\* a JavaScript Set, kept as the sequence of its elements in insertion order
SetHas(set, x) == \E i \in 1..Len(set) : set[i] = x
SetElements(set) == { set[i] : i \in 1..Len(set) }
SetDelete(set, x) == SelectSeq(set, LAMBDA y : y # x)

\* Set.prototype.add
SetAdd(set, x) == IF SetHas(set, x) THEN set ELSE Append(set, x)

\* initialState; darkMode is localStorage.getItem("darkMode") === "true"
initialState(stored) ==
  [ loading         |-> Bool(FALSE),
    incidents       |-> Arr(<<>>),
    currentIncident |-> Null,
    notifications   |-> Arr(<<>>),
    error           |-> Null,
    ui              |-> Obj([darkMode |-> Bool(StrictEq(stored, Str("true"))),
                             menuOpen |-> Bool(FALSE),
                             filterStatus |-> Str("all")]),
    _actionLog      |-> <<>> ]

\* String(b) for a boolean, as localStorage.setItem stores it
JsString(x) == IF x.k = "boolean" THEN Str(IF x.v THEN "true" ELSE "false")
               ELSE IF x.k = "string" THEN x ELSE Str(x.k)

\* the logger middleware (development only): its promise fulfils
loggerMiddleware(action, st, stored) ==
  [settled |-> "fulfilled", localStorage |-> stored]

\* the persistence middleware reading the creator actions.setDarkMode instead
persistenceMiddlewareByCreator(action, st, stored) ==
  IF StrictEq(Get(action, "type"), actions["setDarkMode"])
  THEN [settled |-> "fulfilled",
        localStorage |-> JsString(Get(st.ui, "darkMode"))]
  ELSE [settled |-> "fulfilled", localStorage |-> stored]

\* the persistence middleware: the body of its Promise.resolve().then(...).
\* It reads actions.SET_DARK_MODE.type; reading .type of an absent property
\* is a TypeError, which rejects the promise.
persistenceMiddleware(action, st, stored) ==
  IF "SET_DARK_MODE" \notin DOMAIN actions
  THEN [settled |-> "rejected", localStorage |-> stored]
  ELSE IF StrictEq(Get(action, "type"), actions["SET_DARK_MODE"])
       THEN [settled |-> "fulfilled",
             localStorage |-> JsString(Get(st.ui, "darkMode"))]
       ELSE [settled |-> "fulfilled", localStorage |-> stored]

\* middleware(store)(action) for a registered middleware
middleware(kind, action, st, stored) ==
  IF kind = "logger" THEN loggerMiddleware(action, st, stored)
  ELSE persistenceMiddleware(action, st, stored)

\* the middlewares store.js registers on the exported instance
registeredMiddlewares(dev) ==
  IF dev THEN <<"logger", "persist">> ELSE <<"persist">>

\* dispatchThrows without its test of action.type
dispatchThrowsTypeofOnly(action) ==
  \/ TypeOf(action) # "object"
  \/ action.k \in {"null", "array"}

\* the guard of dispatch: typeof action !== "object" || !action.type
\* (for null, reading action.type is itself a TypeError)
dispatchThrows(action) ==
  \/ TypeOf(action) # "object"
  \/ action.k = "null"
  \/ ~Truthy(Get(action, "type"))

\* Store.dispatch(action), its synchronous part, on the store fields S
dispatch(S, action, time) ==
  IF dispatchThrows(action)
  THEN [S EXCEPT !.lastCall = [op |-> "dispatch", arg |-> action,
                               outcome |-> "threw", id |-> 0]]
  ELSE LET id == S.actionCounter + 1
           enhancedAction == Obj(Spread(action.v,
                                 [_id |-> Num(id), _timestamp |-> Num(time)]))
       IN [S EXCEPT
             !.actionCounter = id,
             !.dispatches = Append(@,
                [ action   |-> enhancedAction,
                  kinds    |-> S.middlewares,
                  mw       |-> [i \in 1..Len(S.middlewares) |-> "pending"],
                  phase    |-> "pending",
                  pre      |-> <<>>,
                  post     |-> <<>>,
                  subscribed |-> {},
                  caller   |-> "returned",
                  shown    |-> <<>>,
                  notified |-> [f \in Subscribable |-> 0] ]),
             !.lastCall = [op |-> "dispatch", arg |-> action,
                           outcome |-> "returned", id |-> id]]

\* the store fields dispatch reads and writes
StoreFields == [actionCounter |-> actionCounter, dispatches |-> dispatches,
                lastCall |-> lastCall, middlewares |-> middlewares]

SetStoreFields(S) ==
  /\ actionCounter' = S.actionCounter
  /\ dispatches' = S.dispatches
  /\ lastCall' = S.lastCall
  /\ middlewares' = S.middlewares

\* the subscriber of the notification service, called with state st: when
\* the latest notification is not marked displayed it shows it as a toast
\* and dispatches markNotificationDisplayed(latest.id)
notificationSubscriber(st) ==
  LET notifications == st.notifications.v
      latestNotification == notifications[Len(notifications)]
  IN IF Len(notifications) > 0
        /\ ~Truthy(Get(latestNotification, "displayed"))
     THEN [ shown |-> <<latestNotification>>,
            dispatched |-> <<createAction(
                               ActionTypes.MARK_NOTIFICATION_DISPLAYED,
                               Get(latestNotification, "id"))>> ]
     ELSE [ shown |-> <<>>, dispatched |-> <<>> ]

\* what the subscribers called in a pass over subs with state st show and
\* dispatch
passEffects(subs, st) ==
  IF \E f \in ServiceSubscribers : SetHas(subs, f)
  THEN notificationSubscriber(st)
  ELSE [ shown |-> <<>>, dispatched |-> <<>> ]

\* one call subscriber(this.state) of the notification loop
Invocation(fn, st) ==
  [fn |-> fn, arg |-> st, threw |-> fn \in ThrowingSubscribers]

\* notifySubscribers without its try/catch: the first exception leaves the loop
notifySubscribersUncaught(subs, st) ==
  LET throwers == { i \in 1..Len(subs) : subs[i] \in ThrowingSubscribers }
      last == IF throwers = {} THEN Len(subs)
              ELSE CHOOSE i \in throwers : \A j \in throwers : i <= j
  IN [ state |-> st,
       invoked |-> [i \in 1..last |-> Invocation(subs[i], st)],
       escaped |-> throwers # {} ]

\* notifySubscribers calling the subscribers with the state the store held
\* before the callback replaced it
notifySubscribersStale(subs, st) ==
  [ state |-> state,
    invoked |-> [i \in 1..Len(subs) |-> Invocation(subs[i], state)],
    escaped |-> FALSE ]

\* notifySubscribers(): the loop calls every subscribed function with
\* this.state, in insertion order, and catches what a subscriber throws
notifySubscribers(subs, st) ==
  [ state |-> st,
    invoked |-> [i \in 1..Len(subs) |-> Invocation(subs[i], st)],
    escaped |-> FALSE ]

\* how many times the pass called fn
Invocations(pass, fn) ==
  Cardinality({ i \in 1..Len(pass.invoked) : pass.invoked[i].fn = fn })

\* the callback of Promise.all(middlewarePromises).then(...); the actions
\* its subscribers dispatch enter the pipeline during the pass
thenCallback(id) ==
  LET d == dispatches[id]
      reduced == reducer(state, d.action)
      entry == [type |-> Get(d.action, "type"),
                payload |-> Get(d.action, "payload"),
                timestamp |-> Get(d.action, "_timestamp")]
      log == state._actionLog
      last19 == IF Len(log) > 19 THEN SubSeq(log, Len(log) - 18, Len(log))
                ELSE log
      nextState == IF development
                   THEN [reduced EXCEPT !._actionLog = Append(last19, entry)]
                   ELSE reduced
      pass == notifySubscribers(subscribers, nextState)
      effects == passEffects(subscribers, nextState)
      S0 == [StoreFields EXCEPT
               !.dispatches[id].phase = "applied",
               !.dispatches[id].pre = <<state>>,
               !.dispatches[id].post = <<nextState>>,
               !.dispatches[id].subscribed = SetElements(subscribers),
               !.dispatches[id].shown = effects.shown,
               !.dispatches[id].notified =
                 [f \in Subscribable |-> @[f] + Invocations(pass, f)]]
      S1 == IF effects.dispatched = <<>> THEN S0
            ELSE dispatch(S0, effects.dispatched[1], now)
  IN /\ state' = nextState
     /\ lastPass' = <<pass>>
     /\ SetStoreFields(S1)
     /\ UNCHANGED localStorage

\* a middleware promise of dispatch id settles
settleMiddleware(id, i) ==
  LET d == dispatches[id]
      r == middleware(d.kinds[i], d.action, state, localStorage)
  IN /\ localStorage' = r.localStorage
     /\ dispatches' = [dispatches EXCEPT
                         ![id].mw[i] = r.settled,
                         ![id].phase = IF r.settled = "rejected"
                                       THEN "dropped" ELSE @]
     /\ UNCHANGED <<state, lastPass, middlewares, actionCounter, lastCall>>

PendingMiddlewares(id) ==
  {i \in 1..Len(dispatches[id].mw) : dispatches[id].mw[i] = "pending"}

\* dispatch id still has a promise reaction to run
PipelineActive(id) ==
  \/ PendingMiddlewares(id) # {}
  \/ dispatches[id].phase = "pending"

-----------------------------------------------------------------------------
(* worker-bridge.js *)

\* the setTimeout delay of sendToWorker
TimeoutMs == 30000

WorkerNames == {"api"}

\* generateMessageId without the counter
generateMessageIdTimeOnly(time, counter) == <<"msg", time, 0>>

\* generateMessageId(): `msg_${Date.now()}_${messageIdCounter++}`
generateMessageId(time, counter) == <<"msg", time, counter>>

NoId == <<>>

Error(message) == Obj([message |-> Str(message)])

\* the bridge fields sendToWorker reads and writes
BridgeFields == [workers |-> workers, pendingCallbacks |-> pendingCallbacks,
                 messageIdCounter |-> messageIdCounter, calls |-> calls,
                 contexts |-> contexts]

SetBridgeFields(B) ==
  /\ workers' = B.workers
  /\ pendingCallbacks' = B.pendingCallbacks
  /\ messageIdCounter' = B.messageIdCounter
  /\ calls' = B.calls
  /\ contexts' = B.contexts

\* map.set(key, value) and map.delete(key)
MapSet(m, key, value) ==
  [x \in (DOMAIN m) \cup {key} |-> IF x = key THEN value ELSE m[x]]
MapDelete(m, key) == [x \in (DOMAIN m) \ {key} |-> m[x]]
EmptyMap == [x \in {} |-> 0]

\* sendToWorker without its `if (!worker)` test: the entry is registered and
\* worker.postMessage on undefined throws inside the promise executor
sendToWorkerUnchecked(B, workerName, action, payload, time) ==
  LET messageId == generateMessageId(time, B.messageIdCounter)
      me == Len(B.calls) + 1
      known == workerName \in DOMAIN B.workers
      c == IF known THEN B.workers[workerName] ELSE 0
  IN [B EXCEPT
        !.messageIdCounter = @ + 1,
        !.pendingCallbacks = MapSet(@, messageId, me),
        !.contexts = IF known /\ B.contexts[c].alive
                     THEN [@ EXCEPT ![c].inbox =
                             Append(@, [id |-> messageId, action |-> action,
                                        payload |-> payload])]
                     ELSE @,
        !.calls = Append(@,
          [ worker |-> workerName, action |-> action,
            payload |-> payload, id |-> messageId, sentAt |-> time,
            status |-> IF known THEN "pending" ELSE "rejected",
            value |-> IF known THEN Undef ELSE Error("TypeError"),
            settles |-> IF known THEN 0 ELSE 1,
            settledAt |-> IF known THEN 0 ELSE time,
            timer |-> IF known THEN "armed" ELSE "none", context |-> c ])]

\* sendToWorker(workerName, action, payload): the promise executor
sendToWorker(B, workerName, action, payload, time) ==
  IF workerName \notin DOMAIN B.workers
  THEN [B EXCEPT !.calls = Append(@,
          [ worker |-> workerName, action |-> action, payload |-> payload,
            id |-> NoId, sentAt |-> time, status |-> "rejected",
            value |-> Error("NotInitialized"), settles |-> 1,
            settledAt |-> time, timer |-> "none", context |-> 0 ])]
  ELSE LET messageId == generateMessageId(time, B.messageIdCounter)
           c == B.workers[workerName]
           me == Len(B.calls) + 1
       IN [B EXCEPT
             !.messageIdCounter = @ + 1,
             !.pendingCallbacks = MapSet(@, messageId, me),
             !.contexts[c].inbox =
                 IF B.contexts[c].alive
                 THEN Append(@, [id |-> messageId, action |-> action,
                                 payload |-> payload])
                 ELSE @,
             !.calls = Append(@,
               [ worker |-> workerName, action |-> action,
                 payload |-> payload, id |-> messageId, sentAt |-> time,
                 status |-> "pending", value |-> Undef, settles |-> 0,
                 settledAt |-> 0, timer |-> "armed", context |-> c ])]

\* resolve(value) / reject(error) of the promise of call i: only the first
\* settlement takes effect; settles counts the invocations the code makes
settle(cs, i, how, value, time) ==
  [cs EXCEPT ![i].settles = @ + 1,
             ![i].status = IF cs[i].status = "pending" THEN how ELSE @,
             ![i].value = IF cs[i].status = "pending" THEN value ELSE @,
             ![i].settledAt = IF cs[i].status = "pending" THEN time ELSE @]

\* the "message" listener initWorker attaches to a worker
onWorkerMessage(B, data, time) ==
  IF data.type = "init" THEN B
  ELSE IF data.id # NoId /\ data.id \in DOMAIN B.pendingCallbacks
       THEN [B EXCEPT
               !.pendingCallbacks = MapDelete(@, data.id),
               !.calls = settle(@, B.pendingCallbacks[data.id], "resolved",
                                data.result, time)]
       ELSE B

\* onTimeout without its pendingCallbacks.has(messageId) test
onTimeoutUnchecked(B, i, time) ==
  [B EXCEPT !.pendingCallbacks = MapDelete(@, B.calls[i].id),
            !.calls = settle([@ EXCEPT ![i].timer = "fired"], i, "rejected",
                             Error("Timeout"), time)]

\* the setTimeout callback of call i
onTimeout(B, i, time) ==
  LET messageId == B.calls[i].id
      fired == [B EXCEPT !.calls[i].timer = "fired"]
  IN IF messageId \in DOMAIN B.pendingCallbacks
     THEN [fired EXCEPT
             !.pendingCallbacks = MapDelete(@, messageId),
             !.calls = settle(@, i, "rejected", Error("Timeout"), time)]
     ELSE fired

\* timerDue for a timer set without its delay
timerDueAtOnce(i, time) ==
  calls[i].timer = "armed" /\ time >= calls[i].sentAt

\* the timer of call i is due
timerDue(i, time) ==
  calls[i].timer = "armed" /\ time >= calls[i].sentAt + TimeoutMs

-----------------------------------------------------------------------------
(* api.worker.js *)

\* `${method}:${url}`
cacheKeyOf(method, url) == <<method, url>>

\* index of key in the cache (a Map, in insertion order), 0 when absent
cacheIndex(cache, key) ==
  IF \E i \in 1..Len(cache) : cache[i].key = key
  THEN CHOOSE i \in 1..Len(cache) : cache[i].key = key
  ELSE 0

cacheHas(cache, key) == cacheIndex(cache, key) # 0
cacheGet(cache, key) == cache[cacheIndex(cache, key)]
cacheKeys(cache) == [i \in 1..Len(cache) |-> cache[i].key]

\* apiCache.delete(key) emptying the map
cacheDeleteAll(cache, key) == <<>>

\* apiCache.delete(key)
cacheDelete(cache, key) ==
  LET Other(e) == e.key # key IN SelectSeq(cache, Other)

\* apiCache.set that keeps the entry a key already has
cacheSetKeepsFirst(cache, key, timestamp, data) ==
  LET entry == [key |-> key, timestamp |-> timestamp, data |-> data]
  IN IF cacheHas(cache, key) THEN cache ELSE Append(cache, entry)

\* apiCache.set(key, {timestamp, data}): an existing key keeps its position
cacheSet(cache, key, timestamp, data) ==
  LET entry == [key |-> key, timestamp |-> timestamp, data |-> data]
  IN IF cacheHas(cache, key)
     THEN [cache EXCEPT ![cacheIndex(cache, key)] = entry]
     ELSE Append(cache, entry)

\* isCacheValid with <= in place of <
isCacheValidInclusive(entry, cacheTTL, time) ==
  time - entry.timestamp <= cacheTTL

\* the entry read at `time` is still valid: Date.now() - timestamp < cacheTTL
isCacheValid(entry, cacheTTL, time) == time - entry.timestamp < cacheTTL

\* processRequest(request) up to its fetch call: the cache lookup.
\* Yields the cache afterwards and either the cached result or none.
processRequestLookup(cache, request, time) ==
  LET cacheKey == cacheKeyOf(request.method, request.url)
  IN IF request.method = "GET" /\ request.useCache /\ cacheHas(cache, cacheKey)
     THEN IF isCacheValid(cacheGet(cache, cacheKey), request.cacheTTL, time)
          THEN [cache |-> cache, hit |-> TRUE,
                result |-> Obj([success |-> Bool(TRUE),
                                data |-> cacheGet(cache, cacheKey).data,
                                fromCache |-> Bool(TRUE)])]
          ELSE [cache |-> cacheDelete(cache, cacheKey), hit |-> FALSE,
                result |-> Undef]
     ELSE [cache |-> cache, hit |-> FALSE, result |-> Undef]

\* what fetch(url, options) can produce: an ok response, a non-2xx response
\* with a JSON error body, or a transport failure
FetchOutcomes ==
  { [kind |-> "ok", status |-> 200, data |-> Str("v1")],
    [kind |-> "ok", status |-> 200, data |-> Str("v2")],
    [kind |-> "http", status |-> 404,
     data |-> Obj([error |-> Str("Not found")])],
    [kind |-> "network", status |-> 0, data |-> Undef] }

\* processRequest(request) after its fetch settled: the result object
\* (statusText, headers and responseTime are not modelled)
processRequestResult(outcome) ==
  IF outcome.kind = "network"
  THEN Obj([success |-> Bool(FALSE), error |-> Str("Failed to fetch"),
            isNetworkError |-> Bool(TRUE)])
  ELSE Obj([success |-> Bool(outcome.kind = "ok"),
            status |-> Num(outcome.status), data |-> outcome.data])

\* the cache write without its method and useCache conditions
processRequestStoreAlways(cache, request, outcome, time) ==
  IF outcome.kind = "ok"
  THEN cacheSet(cache, cacheKeyOf(request.method, request.url), time,
                outcome.data)
  ELSE cache

\* processRequest(request) after its fetch settled: the cache write
processRequestStore(cache, request, outcome, time) ==
  IF outcome.kind = "ok" /\ request.method = "GET" /\ request.useCache
  THEN cacheSet(cache, cacheKeyOf(request.method, request.url), time,
                outcome.data)
  ELSE cache

\* new RegExp(pattern) throws for these patterns
InvalidPatterns == {"("}

\* regex.test(key) for the patterns callers pass
regexTest(pattern, key) ==
  CASE pattern = "^GET:" -> key[1] = "GET"
    [] pattern = "incidents$" -> key[2] = "http://localhost:3000/incidents"
    [] OTHER -> FALSE

\* purgeCache(options): the cache afterwards and the returned object;
\* threw is set when new RegExp(pattern) throws
purgeCache(cache, options, time) ==
  LET url == Get(options, "url")
      pattern == Get(options, "pattern")
      olderThan == Get(options, "olderThan")
      Matches(e) == regexTest(pattern.v, e.key)
      NoMatch(e) == ~regexTest(pattern.v, e.key)
      Old(e) == e.timestamp < time - olderThan.v
      Young(e) == ~(e.timestamp < time - olderThan.v)
      Purged(keys) == Obj([purged |-> Arr(keys)])
  IN IF Truthy(url)
     THEN [cache |-> cacheDelete(cache, cacheKeyOf("GET", url.v)),
           threw |-> FALSE, result |-> Purged(<<cacheKeyOf("GET", url.v)>>)]
     ELSE IF Truthy(pattern)
     THEN IF pattern.v \in InvalidPatterns
          THEN [cache |-> cache, threw |-> TRUE, result |-> Undef]
          ELSE [cache |-> SelectSeq(cache, NoMatch), threw |-> FALSE,
                result |-> Purged(cacheKeys(SelectSeq(cache, Matches)))]
     ELSE IF Truthy(olderThan) /\ TypeOf(olderThan) = "number"
     THEN [cache |-> SelectSeq(cache, Young), threw |-> FALSE,
           result |-> Purged(cacheKeys(SelectSeq(cache, Old)))]
     ELSE [cache |-> <<>>, threw |-> FALSE,
           result |-> Purged(cacheKeys(cache))]

\* getCacheStats() (totalSize, a JSON length, is not modelled)
getCacheStats(cache) ==
  Obj([size |-> Num(Len(cache)), keys |-> Arr(cacheKeys(cache))])

\* a response envelope {id, result} and the readiness message
Response(id, result) == [type |-> "response", id |-> id, result |-> result]
InitMessage == [type |-> "init", id |-> NoId, result |-> Undef]

\* a Worker context right after `new Worker(...)`: the script has run and
\* posted its init message
newContext(name) ==
  [ name |-> name, alive |-> TRUE, inbox |-> <<>>, outbox |-> <<InitMessage>>,
    apiCache |-> <<>>, fetches |-> <<>>, served |-> <<>>, delivered |-> {},
    duplicated |-> {}, completed |-> <<>> ]

\* the worker's "message" listener up to its first await, for message m
onMessage(ctx, m, time) ==
  IF m.action = "request"
  THEN LET look == processRequestLookup(ctx.apiCache, m.payload, time)
       IN IF look.hit
          THEN [ctx EXCEPT
                  !.outbox = Append(@, Response(m.id, look.result)),
                  !.served = Append(@, [id |-> m.id, request |-> m.payload,
                                        at |-> time, network |-> FALSE])]
          ELSE [ctx EXCEPT
                  !.apiCache = look.cache,
                  !.fetches = Append(@, [id |-> m.id, request |-> m.payload]),
                  !.served = Append(@, [id |-> m.id, request |-> m.payload,
                                        at |-> time, network |-> TRUE])]
  ELSE IF m.action = "purgeCache"
  THEN LET r == purgeCache(ctx.apiCache, m.payload, time)
       IN IF r.threw THEN ctx
          ELSE [ctx EXCEPT !.apiCache = r.cache,
                           !.outbox = Append(@, Response(m.id, r.result))]
  ELSE IF m.action = "getCacheStats"
  THEN [ctx EXCEPT
          !.outbox = Append(@, Response(m.id, getCacheStats(ctx.apiCache)))]
  ELSE [ctx EXCEPT
          !.outbox = Append(@, Response(m.id,
                       Obj([success |-> Bool(FALSE),
                            error |-> Str("unsupported action")])))]

\* the worker's listener resumes after `await processRequest(payload)`.
\* The completed log records when the network call settled, how, and how
\* many requests the worker had taken by then.
onFetchSettled(ctx, i, outcome, time) ==
  LET f == ctx.fetches[i]
  IN [ctx EXCEPT
        !.fetches = SubSeq(@, 1, i - 1) \o SubSeq(@, i + 1, Len(@)),
        !.apiCache = processRequestStore(@, f.request, outcome, time),
        !.outbox = Append(@, Response(f.id, processRequestResult(outcome))),
        !.completed = Append(@, [id |-> f.id, request |-> f.request,
                                 at |-> time, outcome |-> outcome,
                                 taken |-> Len(ctx.served)])]

-----------------------------------------------------------------------------
(* worker-bridge.js: the life cycle of the worker contexts *)

\* id.startsWith(`${name}_`) for a message id
idStartsWith(id, name) == id # NoId /\ id[1] = name

\* initWorker(name, workerPath): new Worker(...), listeners, workers.set
initWorker(B, name) ==
  [B EXCEPT !.contexts = Append(@, newContext(name)),
            !.workers = MapSet(@, name, Len(B.contexts) + 1)]

\* terminateWorker(name)
terminateWorker(B, name) ==
  IF name \notin DOMAIN B.workers THEN B
  ELSE LET c == B.workers[name]
           owned == { id \in DOMAIN B.pendingCallbacks : idStartsWith(id, name) }
       IN [B EXCEPT
             !.contexts[c] = [@ EXCEPT !.alive = FALSE, !.inbox = <<>>,
                                       !.outbox = <<>>, !.fetches = <<>>],
             !.workers = MapDelete(@, name),
             !.pendingCallbacks = [id \in (DOMAIN @) \ owned |-> @[id]]]

\* terminateAllWorkers(): terminateWorker for every registered name, then
\* pendingCallbacks.clear()
RECURSIVE terminateEach(_, _)
terminateEach(B, names) ==
  IF names = {} THEN B
  ELSE LET n == CHOOSE x \in names : TRUE
       IN terminateEach(terminateWorker(B, n), names \ {n})

terminateAllWorkers(B) ==
  [terminateEach(B, DOMAIN B.workers) EXCEPT !.pendingCallbacks = EmptyMap]

-----------------------------------------------------------------------------
(* config.js and api.service.js *)

API_BASE_URL == "http://localhost:3000"

\* apiUrl(path): `${CONFIG.API_BASE_URL}${path.startsWith("/") ? path : "/" + path}`
apiUrl(path) ==
  CASE path \in {"incidents", "/incidents"} -> "http://localhost:3000/incidents"
    [] path \in {"incidents/1", "/incidents/1"} ->
         "http://localhost:3000/incidents/1"
    [] OTHER -> "http://localhost:3000/"

\* the cacheTTL request() passes to the worker
DefaultCacheTTL == 300000

\* _handleError(error): dispatches setError({message, code, timestamp}) on
\* the store fields S (and then throws error)
handleError(S, error, time) ==
  dispatch(S, setError([message |-> Or(Get(error, "message"),
                              Str("Error de comunicacion con el servidor")),
                        code |-> Or(Get(error, "status"), Str("NETWORK_ERROR")),
                        timestamp |-> Num(time)]), time)

\* the object the catch block of request() builds from what it caught
caughtError(error) ==
  Obj([message |-> Or(Get(error, "message"), Str("Error de conexion")),
       status |-> Str("NETWORK_ERROR")])

\* the facade operations and the request each one issues
FacadeOps ==
  { [op |-> "getIncidents", method |-> "GET", endpoint |-> "incidents"],
    [op |-> "getIncidentById", method |-> "GET", endpoint |-> "incidents/1"],
    [op |-> "createIncident", method |-> "POST", endpoint |-> "incidents"],
    [op |-> "updateIncidentStatus", method |-> "PUT",
     endpoint |-> "incidents/1"],
    [op |-> "deleteIncident", method |-> "DELETE", endpoint |-> "incidents/1"] }

CacheOps == {"purgeCache", "getCacheStats"}

\* request(method, endpoint, options) up to its await
requestStart(o, showLoader, useCache) ==
  LET url == apiUrl(o.endpoint)
      requestId == <<o.method, url, now>>
      S1 == IF showLoader THEN dispatch(StoreFields, setLoading(TRUE), now)
            ELSE StoreFields
      B1 == sendToWorker(BridgeFields, "api", "request",
              [url |-> url, method |-> o.method,
               useCache |-> useCache /\ o.method = "GET",
               cacheTTL |-> DefaultCacheTTL], now)
  IN /\ pendingRequests' = pendingRequests \cup {requestId}
     /\ SetStoreFields(S1)
     /\ SetBridgeFields(B1)
     /\ requests' = Append(requests,
          [ op |-> o.op, method |-> o.method, url |-> url,
            showLoader |-> showLoader, requestId |-> requestId,
            call |-> Len(B1.calls), pc |-> "awaiting",
            outcome |-> "pending", value |-> Undef, recorded |-> <<>>,
            navigated |-> FALSE ])

\* purgeCache(options) / getCacheStats(): return sendToWorker(...)
cacheOpStart(op, options) ==
  LET B1 == sendToWorker(BridgeFields, "api", op, options, now)
  IN /\ SetBridgeFields(B1)
     /\ requests' = Append(requests,
          [ op |-> op, method |-> "", url |-> "",
            showLoader |-> FALSE, requestId |-> <<>>,
            call |-> Len(B1.calls), pc |-> "awaiting",
            outcome |-> "pending", value |-> Undef, recorded |-> <<>>,
            navigated |-> FALSE ])
     /\ UNCHANGED <<pendingRequests, actionCounter, dispatches, lastCall,
                    middlewares>>

\* request() after its await, when sendToWorker resolved with response
requestResolved(r, response) ==
  LET q == requests[r]
      pending1 == pendingRequests \ {q.requestId}
      S1 == IF q.showLoader /\ pending1 = {}
            THEN dispatch(StoreFields, setLoading(FALSE), now)
            ELSE StoreFields
      data == Get(response, "data")
      error == Obj([message |-> Or(Get(data, "error"),
                                   Str("Error en la peticion")),
                    status |-> Get(response, "status"),
                    data |-> data])
      \* return this._handleError(error) throws inside the try block, so
      \* the catch block handles the thrown error a second time
      S2 == handleError(S1, error, now)
      S3 == handleError(S2, caughtError(error), now)
  IN /\ pendingRequests' = pending1
     /\ IF ~Truthy(Get(response, "success"))
        THEN /\ SetStoreFields(S3)
             /\ requests' = [requests EXCEPT
                  ![r].pc = "done", ![r].outcome = "rejected",
                  ![r].value = caughtError(error),
                  ![r].recorded = <<S2.actionCounter, S3.actionCounter>>]
        ELSE /\ SetStoreFields(S1)
             /\ requests' = [requests EXCEPT
                  ![r].pc = "done", ![r].outcome = "resolved",
                  ![r].value = data]

\* request() after its await, when sendToWorker rejected with error
requestRejected(r, error) ==
  LET S1 == handleError(StoreFields, caughtError(error), now)
  IN /\ SetStoreFields(S1)
     /\ requests' = [requests EXCEPT
          ![r].pc = "done", ![r].outcome = "rejected",
          ![r].value = caughtError(error),
          ![r].recorded = <<S1.actionCounter>>]
     /\ UNCHANGED pendingRequests

\* purgeCache() / getCacheStats(): the returned promise follows the bridge's
cacheOpSettled(r) ==
  LET c == calls[requests[r].call]
  IN /\ requests' = [requests EXCEPT
          ![r].pc = "done", ![r].outcome = c.status, ![r].value = c.value]
     /\ UNCHANGED <<pendingRequests, actionCounter, dispatches, lastCall,
                    middlewares>>

\* abortPendingRequests without its clear()
abortPendingRequestsKeepsTracking ==
  /\ pendingRequests' = pendingRequests
  /\ requests' = [r \in 1..Len(requests) |->
                    IF requests[r].pc = "awaiting"
                    THEN [requests[r] EXCEPT !.navigated = TRUE]
                    ELSE requests[r]]

\* abortPendingRequests(): this.pendingRequests.clear().  The requests
\* awaiting their response at that moment are marked as navigated away from.
abortPendingRequests ==
  /\ pendingRequests' = {}
  /\ requests' = [r \in 1..Len(requests) |->
                    IF requests[r].pc = "awaiting"
                    THEN [requests[r] EXCEPT !.navigated = TRUE]
                    ELSE requests[r]]

\* the continuation of facade call r is ready to run
ResumeReady(r) ==
  requests[r].pc = "awaiting" /\ calls[requests[r].call].status # "pending"

\* the main thread has promise reactions left to run before its next task
MicrotasksPending ==
  \/ \E id \in 1..Len(dispatches) : PipelineActive(id)
  \/ \E r \in 1..Len(requests) : ResumeReady(r)

-----------------------------------------------------------------------------
(* Initial state: the modules have been evaluated; main() has not run *)

StoredDarkMode == {Null, Str("true")}

Init ==
  /\ development \in BOOLEAN
  /\ localStorage \in StoredDarkMode
  /\ initial = initialState(localStorage)
  /\ state = initial
  /\ subscribers = <<>>
  /\ lastPass = <<>>
  /\ middlewares = registeredMiddlewares(development)
  /\ actionCounter = 0
  /\ dispatches = <<>>
  /\ lastCall = [op |-> "none", arg |-> Undef, outcome |-> "none", id |-> 0]
  /\ now = StartTime
  /\ ticks = 0
  /\ workers = EmptyMap
  /\ pendingCallbacks = EmptyMap
  /\ messageIdCounter = 0
  /\ calls = <<>>
  /\ contexts = <<>>
  /\ pendingRequests = {}
  /\ requests = <<>>

-----------------------------------------------------------------------------
(* Store operations *)

\* what callers pass to store.dispatch
DispatchInputs ==
  { Undef, Null, Str("ui/toggleMenu"),
    Obj([payload |-> Bool(TRUE)]),
    Obj([type |-> Str(""), payload |-> Bool(TRUE)]),
    createAction(ActionTypes.TOGGLE_MENU, Undef),
    createAction(ActionTypes.SET_FILTER_STATUS, Str("pendiente")),
    createAction("app/unknown", Undef) }

\* store.dispatch(action)
Dispatch(action) ==
  /\ actionCounter < MaxActions
  /\ SetStoreFields(dispatch(StoreFields, action, now))
  /\ UNCHANGED <<development, state, subscribers, initial, lastPass,
                 localStorage>>
  /\ UNCHANGED <<clockVars, bridgeVars, workerVars, facadeVars>>

\* store.subscribe(subscriber)
Subscribe(subscriber) ==
  /\ IF TypeOf(subscriber) # "function"
     THEN /\ lastCall' = [op |-> "subscribe", arg |-> subscriber,
                          outcome |-> "threw", id |-> 0]
          /\ UNCHANGED subscribers
     ELSE /\ subscribers' = SetAdd(subscribers, subscriber.v)
          /\ lastCall' = [op |-> "subscribe", arg |-> subscriber,
                          outcome |-> "returned", id |-> 0]
  /\ UNCHANGED <<development, state, initial, lastPass, middlewares,
                 actionCounter, dispatches, localStorage>>
  /\ UNCHANGED <<clockVars, bridgeVars, workerVars, facadeVars>>

\* store.unsubscribe(subscriber), also the handle subscribe returned
Unsubscribe(subscriber) ==
  /\ SetHas(subscribers, subscriber.v)
  /\ subscribers' = SetDelete(subscribers, subscriber.v)
  /\ lastCall' = [op |-> "unsubscribe", arg |-> subscriber,
                  outcome |-> "returned", id |-> 0]
  /\ UNCHANGED <<development, state, initial, lastPass, middlewares,
                 actionCounter, dispatches, localStorage>>
  /\ UNCHANGED <<clockVars, bridgeVars, workerVars, facadeVars>>

\* the middleware functions store.js defines
MiddlewareKinds == {"logger", "persist"}

\* store.applyMiddleware(middleware): this.middlewares.push(middleware)
ApplyMiddleware(kind) ==
  /\ Len(middlewares) < MaxMiddlewares
  /\ kind = "logger" => development
  /\ middlewares' = Append(middlewares, kind)
  /\ lastCall' = [op |-> "applyMiddleware", arg |-> Str(kind),
                  outcome |-> "returned", id |-> 0]
  /\ UNCHANGED <<development, state, subscribers, initial, lastPass,
                 actionCounter, dispatches, localStorage>>
  /\ UNCHANGED <<clockVars, bridgeVars, workerVars, facadeVars>>

\* NotificationService.init(), when not yet initialized: subscribes the
\* service's function to the store
NotificationServiceInit ==
  /\ ~\E f \in ServiceSubscribers : SetHas(subscribers, f)
  /\ \E f \in ServiceSubscribers : Subscribe(Fn(f))

\* this.reducer(this.state, action): the composed reducer applied to the
\* current state, which becomes the next state
Reduce(action) ==
  /\ actionCounter < MaxReductions
  /\ actionCounter' = actionCounter + 1
  /\ state' = reducer(state, action)
  /\ lastCall' = [op |-> "reduce", arg |-> action, outcome |-> "returned",
                  id |-> actionCounter']
  /\ UNCHANGED <<development, subscribers, initial, lastPass, middlewares,
                 dispatches, localStorage>>
  /\ UNCHANGED <<clockVars, bridgeVars, workerVars, facadeVars>>

\* one promise reaction of the pipeline of dispatch id: a middleware promise
\* settles, or, all of them fulfilled, the Promise.all(...).then callback runs
PipelineStep(id) ==
  /\ PipelineActive(id)
  /\ IF PendingMiddlewares(id) # {}
     THEN \E i \in PendingMiddlewares(id) : settleMiddleware(id, i)
     ELSE thenCallback(id)
  /\ UNCHANGED <<development, subscribers, initial>>
  /\ UNCHANGED <<clockVars, bridgeVars, workerVars, facadeVars>>

\* store.reset().  (initialState holds no notification, so the notification
\* service's subscriber neither shows nor dispatches anything in this pass.)
Reset ==
  /\ state' = initial
  /\ lastPass' = <<notifySubscribers(subscribers, initial)>>
  /\ lastCall' = [op |-> "reset", arg |-> Undef,
                  outcome |-> IF lastPass'[1].escaped THEN "threw"
                              ELSE "returned",
                  id |-> 0]
  /\ UNCHANGED <<development, subscribers, initial, middlewares,
                 actionCounter, dispatches, localStorage>>
  /\ UNCHANGED <<clockVars, bridgeVars, workerVars, facadeVars>>

-----------------------------------------------------------------------------
(* The clock *)

\* time passes between two tasks of the main thread
Tick(d) ==
  /\ ticks < MaxTicks
  /\ ~MicrotasksPending
  /\ now' = now + d
  /\ ticks' = ticks + 1
  /\ UNCHANGED <<storeVars, bridgeVars, workerVars, facadeVars>>

-----------------------------------------------------------------------------
(* Bridge operations and the events of the main thread *)

\* initWorkerBridge(), which main() calls once at startup, and its
\* initWorker("api", path): new Worker(...), listeners, workers.set
InitWorker(name) ==
  /\ contexts = <<>>
  /\ SetBridgeFields(initWorker(BridgeFields, name))
  /\ UNCHANGED <<storeVars, clockVars, facadeVars>>

\* a further call of initWorkerBridge()
InitWorkerAgain(name) ==
  /\ contexts # <<>>
  /\ Len(contexts) < MaxContexts
  /\ SetBridgeFields(initWorker(BridgeFields, name))
  /\ UNCHANGED <<storeVars, clockVars, facadeVars>>

\* terminateWorker(name)
TerminateWorker(name) ==
  /\ ~MicrotasksPending
  /\ SetBridgeFields(terminateWorker(BridgeFields, name))
  /\ UNCHANGED <<storeVars, clockVars, facadeVars>>

\* terminateAllWorkers(), also the page's beforeunload listener
TerminateAllWorkers ==
  /\ ~MicrotasksPending
  /\ SetBridgeFields(terminateAllWorkers(BridgeFields))
  /\ UNCHANGED <<storeVars, clockVars, facadeVars>>

\* what callers pass to sendToWorker directly
RequestPayloads ==
  { [url |-> apiUrl("incidents"), method |-> "GET", useCache |-> TRUE,
     cacheTTL |-> DefaultCacheTTL],
    [url |-> apiUrl("incidents"), method |-> "GET", useCache |-> FALSE,
     cacheTTL |-> DefaultCacheTTL],
    [url |-> apiUrl("incidents"), method |-> "POST", useCache |-> TRUE,
     cacheTTL |-> DefaultCacheTTL] }

SendInputs ==
  { [action |-> "request", payload |-> p] : p \in RequestPayloads }
  \cup { [action |-> "getCacheStats", payload |-> Obj([x \in {} |-> Undef])] }

\* the options callers pass to purgeCache
PurgeOptions ==
  { Obj([x \in {} |-> Undef]),
    Obj([url |-> Str(apiUrl("incidents"))]),
    Obj([pattern |-> Str("incidents$")]),
    Obj([pattern |-> Str("(")]),
    Obj([olderThan |-> Num(TickSmall)]),
    Obj([olderThan |-> Num(0)]),
    Obj([url |-> Str(apiUrl("incidents/1")), pattern |-> Str("^GET:"),
         olderThan |-> Num(TickSmall)]),
    Obj([pattern |-> Str("incidents$"), olderThan |-> Num(TickSmall)]) }

\* the messages posted to the worker when its cache is exercised: cached
\* GETs of two urls, purges, statistics and an action the worker lacks
CacheInputs ==
  { [action |-> "request",
     payload |-> [url |-> apiUrl(e), method |-> "GET", useCache |-> TRUE,
                  cacheTTL |-> DefaultCacheTTL]] :
       e \in {"incidents", "incidents/1"} }
  \cup { [action |-> "purgeCache", payload |-> o] : o \in PurgeOptions }
  \cup { [action |-> "getCacheStats", payload |-> Obj([x \in {} |-> Undef])],
         [action |-> "sync", payload |-> Obj([x \in {} |-> Undef])] }

\* a direct call sendToWorker(workerName, action, payload)
SendToWorker(workerName, in) ==
  /\ Len(calls) < MaxCalls
  /\ SetBridgeFields(sendToWorker(BridgeFields, workerName, in.action,
                                  in.payload, now))
  /\ UNCHANGED <<storeVars, clockVars, facadeVars>>

\* the main thread handles the next message of worker context c
DeliverMessage(c) ==
  /\ ~MicrotasksPending
  /\ contexts[c].outbox # <<>>
  /\ LET m == Head(contexts[c].outbox)
         B1 == onWorkerMessage(BridgeFields, m, now)
     IN SetBridgeFields([B1 EXCEPT
          !.contexts[c].outbox = Tail(@),
          !.contexts[c].delivered = @ \cup {m}])
  /\ UNCHANGED <<storeVars, clockVars, facadeVars>>

\* a message of worker context c reaches the listener a second time
RedeliverMessage(c, m) ==
  /\ ~MicrotasksPending
  /\ m \in contexts[c].delivered
  /\ m.type # "init"
  /\ LET B1 == onWorkerMessage(BridgeFields, m, now)
     IN SetBridgeFields([B1 EXCEPT !.contexts[c].duplicated = @ \cup {m}])
  /\ UNCHANGED <<storeVars, clockVars, facadeVars>>

\* the timeout timer of call i fires
TimerFire(i) ==
  /\ ~MicrotasksPending
  /\ timerDue(i, now)
  /\ SetBridgeFields(onTimeout(BridgeFields, i, now))
  /\ UNCHANGED <<storeVars, clockVars, facadeVars>>

-----------------------------------------------------------------------------
(* The worker's event loop *)

\* worker context c handles the next message posted to it.  (A step of the
\* worker commutes with every promise reaction of the main thread, so the
\* worker's steps are taken between them only once they have all run.)
WorkerReceive(c) ==
  /\ ~MicrotasksPending
  /\ contexts[c].alive
  /\ contexts[c].inbox # <<>>
  /\ LET m == Head(contexts[c].inbox)
         ctx == [contexts[c] EXCEPT !.inbox = Tail(@)]
     IN contexts' = [contexts EXCEPT ![c] = onMessage(ctx, m, now)]
  /\ UNCHANGED <<storeVars, clockVars, bridgeVars, facadeVars>>

\* worker.postMessage({id, action, payload}) on context c
PostMessage(c, in) ==
  /\ messageIdCounter < MaxMessages
  /\ contexts[c].alive
  /\ messageIdCounter' = messageIdCounter + 1
  /\ contexts' = [contexts EXCEPT
       ![c].inbox = Append(@, [id |-> generateMessageId(now, messageIdCounter),
                               action |-> in.action, payload |-> in.payload])]
  /\ UNCHANGED <<workers, pendingCallbacks, calls>>
  /\ UNCHANGED <<storeVars, clockVars, facadeVars>>

\* a fetch of worker context c settles
FetchSettled(c, i, outcome) ==
  /\ ~MicrotasksPending
  /\ contexts[c].alive
  /\ i \in 1..Len(contexts[c].fetches)
  /\ contexts' = [contexts EXCEPT
                    ![c] = onFetchSettled(contexts[c], i, outcome, now)]
  /\ UNCHANGED <<storeVars, clockVars, bridgeVars, facadeVars>>

-----------------------------------------------------------------------------
(* Facade operations *)

\* ApiService.getIncidents() ... deleteIncident(id), called with options
ApiRequest(o, showLoader, useCache) ==
  /\ Len(requests) < MaxRequests
  /\ requestStart(o, showLoader, useCache)
  /\ UNCHANGED <<development, state, subscribers, initial, lastPass,
                 localStorage, clockVars>>

\* ApiService.purgeCache(options) and ApiService.getCacheStats()
ApiCacheOp(op) ==
  /\ Len(requests) < MaxRequests
  /\ cacheOpStart(op, Obj([x \in {} |-> Undef]))
  /\ UNCHANGED <<development, state, subscribers, initial, lastPass,
                 localStorage, clockVars>>

\* the "page-changed" event reaches the listener init() registered
PageChanged ==
  /\ abortPendingRequests
  /\ UNCHANGED <<storeVars, clockVars, bridgeVars, workerVars>>

\* the facade call r resumes after its await
ApiResume(r) ==
  /\ ResumeReady(r)
  /\ LET c == calls[requests[r].call]
     IN IF requests[r].op \in CacheOps THEN cacheOpSettled(r)
        ELSE IF c.status = "resolved" THEN requestResolved(r, c.value)
        ELSE requestRejected(r, c.value)
  /\ UNCHANGED <<development, state, subscribers, initial, lastPass,
                 localStorage>>
  /\ UNCHANGED <<clockVars, bridgeVars, workerVars>>

-----------------------------------------------------------------------------
(* Specifications *)

\* the worker side of a context: its event loop
WorkerNext ==
  \/ \E c \in 1..Len(contexts) : WorkerReceive(c)
  \/ \E c \in 1..Len(contexts), o \in FetchOutcomes :
       \E i \in 1..Len(contexts[c].fetches) : FetchSettled(c, i, o)

\* a production build started with empty storage
InitProduction == Init /\ ~development /\ localStorage = Null

\* the application: the facade on the exported store and the bridge
Next ==
  \/ \E id \in 1..Len(dispatches) : PipelineStep(id)
  \/ \E n \in WorkerNames : InitWorker(n)
  \/ \E o \in FacadeOps, l \in BOOLEAN : ApiRequest(o, l, TRUE)
  \/ \E op \in CacheOps : ApiCacheOp(op)
  \/ \E r \in 1..Len(requests) : ApiResume(r)
  \/ \E c \in 1..Len(contexts) : DeliverMessage(c)
  \/ \E i \in 1..Len(calls) : TimerFire(i)
  \/ Tick(TimeoutMs)
  \/ WorkerNext

Spec == InitProduction /\ [][Next]_vars

\* the store alone
NextStore ==
  \/ \E a \in DispatchInputs : Dispatch(a)
  \/ \E f \in AllSubscribers : Subscribe(Fn(f))
  \/ Subscribe(Undef)
  \/ \E f \in AllSubscribers : Unsubscribe(Fn(f))
  \/ Reset
  \/ \E id \in 1..Len(dispatches) : PipelineStep(id)

SpecStore == Init /\ [][NextStore]_vars

\* a Store as its constructor leaves it: no middleware registered yet
InitStoreClass ==
  /\ development \in BOOLEAN
  /\ localStorage \in StoredDarkMode
  /\ initial = initialState(localStorage)
  /\ state = initial
  /\ subscribers = <<>>
  /\ lastPass = <<>>
  /\ middlewares = <<>>
  /\ actionCounter = 0
  /\ dispatches = <<>>
  /\ lastCall = [op |-> "none", arg |-> Undef, outcome |-> "none", id |-> 0]
  /\ now = StartTime
  /\ ticks = 0
  /\ workers = EmptyMap
  /\ pendingCallbacks = EmptyMap
  /\ messageIdCounter = 0
  /\ calls = <<>>
  /\ contexts = <<>>
  /\ pendingRequests = {}
  /\ requests = <<>>

\* well-formed actions, one of which the reducer leaves the state unchanged for
StoreClassInputs ==
  { createAction(ActionTypes.TOGGLE_MENU, Undef),
    createAction("app/unknown", Undef) }

\* the Store class: middlewares registered, functions subscribed and
\* actions dispatched in any order
NextStoreClass ==
  \/ \E kind \in MiddlewareKinds : ApplyMiddleware(kind)
  \/ \E a \in StoreClassInputs : Dispatch(a)
  \/ \E f \in AllSubscribers : Subscribe(Fn(f))
  \/ \E id \in 1..Len(dispatches) : PipelineStep(id)

SpecStoreClass == InitStoreClass /\ [][NextStoreClass]_vars

\* the store with the dispatches that set the dark-mode preference
PersistenceInputs ==
  { createAction(ActionTypes.SET_DARK_MODE, Bool(TRUE)),
    createAction(ActionTypes.SET_DARK_MODE, Bool(FALSE)),
    createAction(ActionTypes.TOGGLE_MENU, Undef) }

NextPersistence ==
  \/ \E a \in PersistenceInputs : Dispatch(a)
  \/ \E id \in 1..Len(dispatches) : PipelineStep(id)

SpecPersistence == Init /\ [][NextPersistence]_vars

\* the facade's requests with page navigation
NavigationOps ==
  { o \in FacadeOps : o.op \in {"getIncidents"} }

NextNavigation ==
  \/ \E id \in 1..Len(dispatches) : PipelineStep(id)
  \/ \E n \in WorkerNames : InitWorker(n)
  \/ \E o \in NavigationOps, l \in BOOLEAN : ApiRequest(o, l, TRUE)
  \/ PageChanged
  \/ \E r \in 1..Len(requests) : ApiResume(r)
  \/ \E c \in 1..Len(contexts) : DeliverMessage(c)
  \/ \E i \in 1..Len(calls) : TimerFire(i)
  \/ Tick(TimeoutMs)
  \/ WorkerNext

\* both event loops run every task that is ready: promise reactions, the
\* delivery of worker messages and due timers on the main thread, messages
\* and settled network calls in the worker.  The last conjunct is the weak
\* fairness of ApiResume, whose enabling condition is ResumeReady.
SpecNavigation ==
  /\ InitProduction
  /\ [][NextNavigation]_vars
  /\ WF_vars(\E id \in 1..Len(dispatches) : PipelineStep(id))
  /\ WF_vars(\E c \in 1..Len(contexts) : DeliverMessage(c))
  /\ WF_vars(\E i \in 1..Len(calls) : TimerFire(i))
  /\ WF_vars(WorkerNext)
  /\ \/ []<>(~\E r \in 1..Len(requests) : ResumeReady(r))
     \/ []<><<\E r \in 1..Len(requests) : ApiResume(r)>>_vars

\* the store with the notification service and the notification actions
NotificationInputs(time) ==
  { showSuccessNotification("saved", time),
    showErrorNotification("failed", time),
    showWarningNotification("slow", time),
    showInfoNotification("saved", time),
    createAction(ActionTypes.REMOVE_NOTIFICATION, Num(StartTime)),
    createAction(ActionTypes.TOGGLE_MENU, Undef) }

NextNotifications ==
  \/ NotificationServiceInit
  \/ \E a \in NotificationInputs(now) : Dispatch(a)
  \/ \E id \in 1..Len(dispatches) : PipelineStep(id)
  \/ Tick(TickSmall)

SpecNotifications == Init /\ [][NextNotifications]_vars

\* a notification and an action that leaves the notifications alone
ToastInputs(time) ==
  { showSuccessNotification("saved", time),
    showErrorNotification("failed", time),
    createAction(ActionTypes.TOGGLE_MENU, Undef) }

\* a Store from its constructed state with the notification service
NextNotificationsClass ==
  \/ \E kind \in MiddlewareKinds : ApplyMiddleware(kind)
  \/ NotificationServiceInit
  \/ \E a \in ToastInputs(now) : Dispatch(a)
  \/ \E id \in 1..Len(dispatches) : PipelineStep(id)

\* such a Store in a production build started with empty storage
InitStoreClassProduction ==
  InitStoreClass /\ ~development /\ localStorage = Null

SpecNotificationsClass ==
  InitStoreClassProduction /\ [][NextNotificationsClass]_vars

\* the composed reducer alone, applied to states that differ in the
\* action log of a development build
Incident(id, status) == Obj([id |-> Num(id), status |-> Str(status)])

LogEntries ==
  { <<>>,
    <<[type |-> Str(ActionTypes.TOGGLE_MENU), payload |-> Undef,
       timestamp |-> Num(StartTime)]>> }

ReducerInputs ==
  { createAction(ActionTypes.SET_INCIDENTS, Arr(<<Incident(1, "pendiente")>>)),
    createAction(ActionTypes.SET_INCIDENTS,
                 Arr(<<Incident(2, "pendiente"), Incident(1, "pendiente")>>)),
    createAction(ActionTypes.SET_INCIDENTS, Undef),
    createAction(ActionTypes.ADD_INCIDENT, Incident(1, "pendiente")),
    createAction(ActionTypes.ADD_INCIDENT, Incident(3, "en proceso")),
    createAction(ActionTypes.UPDATE_INCIDENT, Incident(1, "resuelto")),
    createAction(ActionTypes.UPDATE_INCIDENT,
                 Obj([id |-> Num(3), reporter |-> Str("ana")])),
    createAction(ActionTypes.DELETE_INCIDENT, Num(1)),
    createAction(ActionTypes.DELETE_INCIDENT, Str("1")),
    createAction(ActionTypes.SET_CURRENT_INCIDENT, Incident(1, "pendiente")),
    createAction(ActionTypes.CLEAR_CURRENT_INCIDENT, Undef),
    createAction(ActionTypes.LOAD_INCIDENTS, Undef),
    createAction("app/unknown", Num(1)) }

InitReducer ==
  /\ development \in BOOLEAN
  /\ localStorage \in StoredDarkMode
  /\ initial = initialState(localStorage)
  /\ \E log \in LogEntries :
       /\ development \/ log = <<>>
       /\ state = [initial EXCEPT !._actionLog = log]
  /\ subscribers = <<>>
  /\ lastPass = <<>>
  /\ middlewares = registeredMiddlewares(development)
  /\ actionCounter = 0
  /\ dispatches = <<>>
  /\ lastCall = [op |-> "none", arg |-> Undef, outcome |-> "none", id |-> 0]
  /\ now = StartTime
  /\ ticks = 0
  /\ workers = EmptyMap
  /\ pendingCallbacks = EmptyMap
  /\ messageIdCounter = 0
  /\ calls = <<>>
  /\ contexts = <<>>
  /\ pendingRequests = {}
  /\ requests = <<>>

NextReducer == \E a \in ReducerInputs : Reduce(a)

SpecReducer == InitReducer /\ [][NextReducer]_vars

\* the bridge and the worker, called directly
NextBridge ==
  \/ \E n \in WorkerNames : InitWorker(n)
  \/ \E n \in WorkerNames, in \in SendInputs : SendToWorker(n, in)
  \/ \E c \in 1..Len(contexts) : DeliverMessage(c)
  \/ \E c \in 1..Len(contexts) :
       \E m \in contexts[c].delivered : RedeliverMessage(c, m)
  \/ \E i \in 1..Len(calls) : TimerFire(i)
  \/ \E d \in {TickSmall, TimeoutMs} : Tick(d)
  \/ WorkerNext

SpecBridge == InitProduction /\ [][NextBridge]_vars

\* the bridge with the contexts' life cycle: repeated initialisation and
\* termination
NextLifecycle ==
  \/ \E n \in WorkerNames : InitWorker(n)
  \/ \E n \in WorkerNames : InitWorkerAgain(n)
  \/ \E n \in WorkerNames \cup {"other"} : TerminateWorker(n)
  \/ TerminateAllWorkers
  \/ \E n \in WorkerNames, in \in SendInputs : SendToWorker(n, in)
  \/ \E c \in 1..Len(contexts) : DeliverMessage(c)
  \/ \E i \in 1..Len(calls) : TimerFire(i)
  \/ Tick(TimeoutMs)
  \/ WorkerNext

SpecLifecycle == InitProduction /\ [][NextLifecycle]_vars

\* a direct call of sendToWorker made while the clock can still reach the
\* call's timeout
SendToWorkerInTime(workerName, in) ==
  /\ ticks < MaxTicks
  /\ SendToWorker(workerName, in)

\* the bridge with termination, under the scheduling of the event loop: a
\* queued message event is eventually handled, a due timer eventually
\* fires, the worker's event loop keeps running and time passes
NextTermination ==
  \/ \E n \in WorkerNames : InitWorker(n)
  \/ \E n \in WorkerNames : TerminateWorker(n)
  \/ TerminateAllWorkers
  \/ \E n \in WorkerNames, in \in SendInputs : SendToWorkerInTime(n, in)
  \/ \E c \in 1..Len(contexts) : DeliverMessage(c)
  \/ \E i \in 1..Len(calls) : TimerFire(i)
  \/ Tick(TimeoutMs)
  \/ WorkerNext

SpecTermination ==
  /\ InitProduction
  /\ [][NextTermination]_vars
  /\ WF_vars(\E c \in 1..Len(contexts) : DeliverMessage(c))
  /\ \A i \in 1..MaxCalls : WF_vars(i \in 1..Len(calls) /\ TimerFire(i))
  /\ WF_vars(Tick(TimeoutMs))
  /\ WF_vars(WorkerNext)

\* the worker alone: messages posted to its context
NextWorker ==
  \/ \E n \in WorkerNames : InitWorker(n)
  \/ \E c \in 1..Len(contexts), in \in SendInputs : PostMessage(c, in)
  \/ \E d \in {TickSmall, DefaultCacheTTL} : Tick(d)
  \/ WorkerNext

SpecWorker == InitProduction /\ [][NextWorker]_vars

\* the worker alone: requests, purges and statistics of its cache
NextCache ==
  \/ \E n \in WorkerNames : InitWorker(n)
  \/ \E c \in 1..Len(contexts), in \in CacheInputs : PostMessage(c, in)
  \/ \E d \in {TickSmall, DefaultCacheTTL} : Tick(d)
  \/ WorkerNext

SpecCache == InitProduction /\ [][NextCache]_vars

-----------------------------------------------------------------------------
(* Claims about the store *)

\* the promise reactions of dispatch id have all run
Settled(id) == ~PipelineActive(id)

\* C1: for every well-formed action dispatched on the exported store, once
\* the dispatch has settled each subscribed function has been invoked exactly
\* once with the state the composed reducer yields for the action, and that
\* state has become the store's state.
C1_SubscribersNotifiedOnce ==
  \A id \in 1..Len(dispatches) :
    Settled(id) =>
      LET d == dispatches[id]
      IN /\ d.phase = "applied"
         /\ [d.post[1] EXCEPT !._actionLog = d.pre[1]._actionLog]
              = reducer(d.pre[1], d.action)
         /\ \A f \in AllSubscribers :
              d.notified[f] = IF f \in d.subscribed THEN 1 ELSE 0
         /\ \E j \in id..Len(dispatches) :
              dispatches[j].phase = "applied" /\ state = dispatches[j].post[1]

\* an action that is no object, or has no type, or an empty one
Malformed(action) ==
  \/ action.k # "object"
  \/ "type" \notin DOMAIN action.v
  \/ action.v["type"] = Str("")

\* C2: a dispatch call with a malformed action throws to its caller and
\* leaves the state, the action counter, the dispatch pipelines (middlewares,
\* reducer, notifications) and the subscribers as they were.
C2_MalformedDispatchThrows ==
  [][ (lastCall' # lastCall /\ lastCall'.op = "dispatch"
         /\ Malformed(lastCall'.arg))
      => /\ lastCall'.outcome = "threw"
         /\ UNCHANGED <<state, actionCounter, dispatches, subscribers, lastPass,
                        middlewares, localStorage>> ]_vars

\* a malformed action was dispatched on a store that has accepted an action
\* and has a subscriber
C2_Witness ==
  /\ lastCall.op = "dispatch"
  /\ lastCall.outcome = "threw"
  /\ Malformed(lastCall.arg)
  /\ actionCounter > 0
  /\ subscribers # <<>>

\* C10: a dispatch one of whose middlewares rejected still ends either with
\* the state updated and the subscribers notified, or with the failure
\* surfaced to the caller of dispatch.
C10_RejectionNotDropped ==
  \A id \in 1..Len(dispatches) :
    (Settled(id) /\ \E i \in 1..Len(dispatches[id].mw) :
                       dispatches[id].mw[i] = "rejected")
      => \/ dispatches[id].phase = "applied"
         \/ dispatches[id].caller = "threw"

-----------------------------------------------------------------------------
(* Claims about the bridge *)

\* the response envelopes the worker contexts have posted so far
Posted ==
  UNION { {contexts[c].outbox[k] : k \in 1..Len(contexts[c].outbox)}
            \cup contexts[c].delivered : c \in 1..Len(contexts) }

\* the envelopes the main thread's listener has received
Delivered == UNION { contexts[c].delivered : c \in 1..Len(contexts) }

ResultsFor(id) == { m.result : m \in { p \in Posted : p.id = id } }

\* the calls that posted a message
Sent == { i \in 1..Len(calls) : calls[i].id # NoId }

\* C3: concurrent sendToWorker calls carry pairwise distinct ids, a call is
\* resolved only with the result of the response posted for its own id, and
\* every call whose response arrived before its timer fired is resolved, in
\* whatever order the responses arrive.
C3_ResolvedByOwnResponse ==
  /\ \A i, j \in Sent : i # j => calls[i].id # calls[j].id
  /\ \A i \in Sent :
       /\ calls[i].status = "resolved"
            => ResultsFor(calls[i].id) = {calls[i].value}
       /\ (\E m \in Delivered : m.id = calls[i].id)
            => \/ calls[i].status = "resolved"
               \/ calls[i].status = "rejected" /\ calls[i].timer = "fired"

\* two requests are in flight and the response to the second arrived first
C3_Witness ==
  /\ Len(calls) = 2
  /\ calls[1].action = "request" /\ calls[2].action = "request"
  /\ calls[1].sentAt = calls[2].sentAt
  /\ calls[1].status = "pending"
  /\ calls[2].status = "resolved"

\* C4: the code settles the promise of a call at most once, and a pending
\* entry exists only for a call that is still pending: after the entry is
\* removed, a further message with that id changes nothing.
C4_SettledAtMostOnce ==
  \A i \in 1..Len(calls) :
    /\ calls[i].settles <= 1
    /\ (calls[i].status = "pending") = (calls[i].settles = 0)
    /\ calls[i].id \in DOMAIN pendingCallbacks
         => calls[i].status = "pending" /\ pendingCallbacks[calls[i].id] = i

\* a response reached the listener twice and the timer of its call has fired
C4_Witness ==
  \E i \in Sent, c \in 1..Len(contexts) :
    /\ \E m \in contexts[c].duplicated : m.id = calls[i].id
    /\ calls[i].timer = "fired"
    /\ calls[i].status = "resolved"

\* C5: a call is rejected with Timeout by its timer only, never before 30 s
\* have passed since it was sent; until the timer fires an unanswered call
\* stays pending; once the timer has fired the call is settled and has no
\* pending entry, also after a late response.
C5_TimeoutAtBound ==
  \A i \in Sent :
    /\ (calls[i].timer = "armed" /\ ~\E m \in Delivered : m.id = calls[i].id)
         => calls[i].status = "pending" /\ calls[i].id \in DOMAIN pendingCallbacks
    /\ calls[i].timer = "fired"
         => /\ now >= calls[i].sentAt + TimeoutMs
            /\ calls[i].status # "pending"
            /\ calls[i].id \notin DOMAIN pendingCallbacks
    /\ calls[i].status = "rejected"
         => /\ calls[i].timer = "fired"
            /\ calls[i].value = Error("Timeout")
            /\ calls[i].settledAt >= calls[i].sentAt + TimeoutMs
            /\ calls[i].settles = 1

\* a call timed out and its response arrived afterwards
C5_Witness ==
  \E i \in Sent :
    /\ calls[i].status = "rejected"
    /\ calls[i].value = Error("Timeout")
    /\ \E m \in Delivered : m.id = calls[i].id
    /\ pendingCallbacks = EmptyMap

-----------------------------------------------------------------------------
(* Claims about the worker's response cache *)

Cacheable(request) == request.method = "GET" /\ request.useCache

\* the cache of context ctx holds an entry for the request younger than its TTL
Fresh(ctx, request, time) ==
  LET key == cacheKeyOf(request.method, request.url)
  IN /\ cacheHas(ctx.apiCache, key)
     /\ time - cacheGet(ctx.apiCache, key).timestamp < request.cacheTTL

\* the worker of context c takes a cacheable request from its inbox
C6_OnRequest(c) ==
  LET ctx == contexts[c]
      nxt == contexts'[c]
      m   == Head(ctx.inbox)
      key == cacheKeyOf(m.payload.method, m.payload.url)
  IN (/\ ctx.inbox # <<>>
      /\ nxt.inbox = Tail(ctx.inbox)
      /\ m.action = "request"
      /\ Cacheable(m.payload))
     => IF Fresh(ctx, m.payload, now)
        THEN /\ nxt.fetches = ctx.fetches
             /\ nxt.apiCache = ctx.apiCache
             /\ Len(nxt.outbox) = Len(ctx.outbox) + 1
             /\ nxt.outbox[Len(nxt.outbox)] =
                  Response(m.id, Obj([success |-> Bool(TRUE),
                                      data |-> cacheGet(ctx.apiCache, key).data,
                                      fromCache |-> Bool(TRUE)]))
        ELSE /\ Len(nxt.fetches) = Len(ctx.fetches) + 1
             /\ nxt.outbox = ctx.outbox
             /\ ~cacheHas(nxt.apiCache, key)

\* a fetch of context c settles and the worker answers
C6_OnFetchSettled(c) ==
  LET ctx  == contexts[c]
      nxt  == contexts'[c]
      resp == nxt.outbox[Len(nxt.outbox)]
      f    == ctx.fetches[CHOOSE i \in 1..Len(ctx.fetches) :
                            ctx.fetches[i].id = resp.id]
      key  == cacheKeyOf(f.request.method, f.request.url)
  IN (/\ Len(nxt.fetches) = Len(ctx.fetches) - 1
      /\ Cacheable(f.request)
      /\ Get(resp.result, "success") = Bool(TRUE))
     => /\ cacheHas(nxt.apiCache, key)
        /\ cacheGet(nxt.apiCache, key) =
             [key |-> key, timestamp |-> now, data |-> resp.result.v.data]

\* C6: a GET with caching enabled whose key has an entry younger than the TTL
\* is answered with that entry's data, fromCache true and no network call;
\* otherwise the entry, if any, is evicted and exactly one network call is
\* made, and a successful response is stored under the same key with the
\* current time. An entry whose age equals the TTL counts as expired.
C6_CacheHitOrRefetch ==
  [][ \A c \in 1..Len(contexts) :
        Len(contexts') = Len(contexts)
          => C6_OnRequest(c) /\ C6_OnFetchSettled(c) ]_vars

\* a miss, a hit, and a request at age exactly TTL that went to the network
\* and repopulated the cache
C6_Witness ==
  \E c \in 1..Len(contexts) :
    LET ctx == contexts[c]
    IN /\ Len(ctx.served) = 3
       /\ \A k \in 1..3 : Cacheable(ctx.served[k].request)
       /\ ctx.served[1].network
       /\ ~ctx.served[2].network
       /\ ctx.served[3].network
       /\ ctx.served[3].at = ctx.served[1].at + DefaultCacheTTL
       /\ ctx.fetches = <<>>
       /\ Fresh(ctx, ctx.served[3].request, now)
       /\ cacheGet(ctx.apiCache, cacheKeyOf("GET", apiUrl("incidents"))).timestamp
            = ctx.served[3].at

-----------------------------------------------------------------------------
(* Claims about the facade *)

Outstanding == { r \in 1..Len(requests) : requests[r].pc = "awaiting" }
Finished    == { r \in 1..Len(requests) : requests[r].pc = "done" }

\* the main thread has run every promise reaction it had
Quiescent == ~MicrotasksPending

\* C7: once the main thread is quiescent, the store's loading flag is true
\* exactly while a request issued with showLoader is outstanding, and the
\* tracking set holds no identifier of a finished request.
C7_LoadingWhileOutstanding ==
  Quiescent =>
    /\ Truthy(state.loading) = (\E r \in Outstanding : requests[r].showLoader)
    /\ \A r \in Finished :
         requests[r].requestId \in pendingRequests
           => \E q \in Outstanding : requests[q].requestId = requests[r].requestId

\* the bridge call of facade call r failed, or its response is a non-success
Failed(r) ==
  LET c == calls[requests[r].call]
  IN \/ c.status = "rejected"
     \/ c.status = "resolved" /\ ~Truthy(Get(c.value, "success"))

Normalized(error) ==
  /\ error.k = "object"
  /\ DOMAIN error.v = {"message", "code", "timestamp"}

\* C8: once the main thread is quiescent, every finished facade call that
\* failed has rejected its caller's promise, and a dispatch it issued has put
\* a normalized error {message, code, timestamp} into the store's error slice.
C8_FailureRecordedAndRejected ==
  Quiescent =>
    \A r \in Finished :
      Failed(r) =>
        /\ requests[r].outcome = "rejected"
        /\ \E k \in 1..Len(requests[r].recorded) :
             LET d == dispatches[requests[r].recorded[k]]
             IN d.phase = "applied" /\ Normalized(d.post[1].error)

-----------------------------------------------------------------------------
(* Further claims about the store *)

\* C11: a dispatch whose call has returned to its caller has had every
\* middleware promise settle and its reduced state installed: the caller
\* never observes a completed dispatch that getState() does not reflect.
C11_CompleteAfterApplied ==
  \A id \in 1..Len(dispatches) :
    dispatches[id].caller = "returned"
      => /\ PendingMiddlewares(id) = {}
         /\ dispatches[id].phase = "applied"

\* the step ran notifySubscribers: reset() was called, or the then-callback
\* of a dispatch ran
PassRan ==
  \/ lastPass' # lastPass
  \/ lastCall' # lastCall /\ lastCall'.op = "reset"
  \/ \E id \in 1..Len(dispatches) :
       dispatches[id].phase # "applied" /\ dispatches'[id].phase = "applied"

\* C12: in every notification pass each subscribed function is called with
\* the new state, whether or not another subscriber throws in that pass; no
\* exception leaves the pass, the state stays the one the pass announced and
\* the subscriber set is unchanged.
C12_ThrowingSubscriberIsolated ==
  [][ PassRan =>
        LET pass == lastPass'[1]
        IN /\ \A f \in SetElements(subscribers) :
                \E i \in 1..Len(pass.invoked) :
                  pass.invoked[i].fn = f /\ pass.invoked[i].arg = state'
           /\ ~pass.escaped
           /\ pass.state = state'
           /\ subscribers' = subscribers ]_vars

\* a pass in which the first subscriber called threw and the second was
\* called all the same
C12_Witness ==
  /\ lastPass # <<>>
  /\ Len(lastPass[1].invoked) = 2
  /\ lastPass[1].invoked[1].threw
  /\ ~lastPass[1].invoked[2].threw
  /\ lastPass[1].invoked[2].arg = state

\* C13: the subscriber set holds a function at most once, so a dispatch
\* invokes each subscribed function exactly once however often it was
\* subscribed; a notification pass invokes no function that has been
\* unsubscribed; subscribe with a non-callable argument throws and leaves
\* the set unchanged.
C13_SubscriberSetDeduplicated ==
  [][ /\ Cardinality(SetElements(subscribers')) = Len(subscribers')
      /\ \A id \in 1..Len(dispatches) :
           (PipelineActive(id) /\ ~PipelineActive(id)') =>
             \A f \in SetElements(subscribers) :
               dispatches'[id].notified[f] = 1
      /\ PassRan =>
           \A i \in 1..Len(lastPass'[1].invoked) :
             SetHas(subscribers, lastPass'[1].invoked[i].fn)
      /\ (lastCall' # lastCall /\ lastCall'.op = "subscribe"
            /\ TypeOf(lastCall'.arg) # "function")
           => lastCall'.outcome = "threw" /\ subscribers' = subscribers ]_vars

-----------------------------------------------------------------------------
(* Claims about the registry and the life cycle of the contexts *)

\* the step is a sendToWorker call for a name that is not registered
SendToUnregistered ==
  /\ Len(calls') = Len(calls) + 1
  /\ calls'[Len(calls')].worker \notin DOMAIN workers

\* C14: sendToWorker for a name the registry does not hold rejects with
\* NotInitialized; it posts no message to any context, creates no pending
\* entry, draws no message id and starts no timer.
C14_UnregisteredRejected ==
  [][ SendToUnregistered =>
        /\ calls'[Len(calls')].status = "rejected"
        /\ calls'[Len(calls')].value = Error("NotInitialized")
        /\ calls'[Len(calls')].timer = "none"
        /\ contexts' = contexts
        /\ pendingCallbacks' = pendingCallbacks
        /\ messageIdCounter' = messageIdCounter
        /\ workers' = workers ]_vars

\* a call for a name whose context had been terminated was rejected while
\* an earlier call was still pending
C14_Witness ==
  /\ Len(calls) = 2
  /\ calls[1].status = "pending"
  /\ calls[2].value = Error("NotInitialized")
  /\ workers = EmptyMap
  /\ contexts # <<>>

LiveContexts(name) ==
  { c \in 1..Len(contexts) : contexts[c].alive /\ contexts[c].name = name }

Registered(c) ==
  contexts[c].name \in DOMAIN workers /\ workers[contexts[c].name] = c

\* C15: every logical name has at most one live context, and every live
\* context is the one the registry holds for its name.
C15_OneContextPerName ==
  /\ \A n \in WorkerNames : Cardinality(LiveContexts(n)) <= 1
  /\ \A c \in 1..Len(contexts) : contexts[c].alive => Registered(c)

\* the pending entries of the calls that were sent to context c
PendingOf(c) ==
  { id \in DOMAIN pendingCallbacks : calls[pendingCallbacks[id]].context = c }

\* C16: terminateWorker(name) stops the context, removes its registry entry
\* and removes exactly the pending entries of the calls sent to that
\* context, leaving the others; terminateAllWorkers leaves the registry and
\* the pending map empty.
C16_TerminateDropsOwnedEntries ==
  [][ /\ \A n \in DOMAIN workers :
           BridgeFields' = terminateWorker(BridgeFields, n) =>
             /\ ~contexts'[workers[n]].alive
             /\ n \notin DOMAIN workers'
             /\ DOMAIN pendingCallbacks' =
                  (DOMAIN pendingCallbacks) \ PendingOf(workers[n])
      /\ BridgeFields' = terminateAllWorkers(BridgeFields) =>
           /\ workers' = EmptyMap
           /\ pendingCallbacks' = EmptyMap ]_vars

-----------------------------------------------------------------------------
(* Further claims about the worker and its cache *)

\* the worker of context c takes the next message from its inbox in this
\* step; Received(c) is that message
Receives(c) ==
  /\ contexts[c].inbox # <<>>
  /\ contexts'[c].inbox = Tail(contexts[c].inbox)

Received(c) == Head(contexts[c].inbox)

\* a fetch of context c settles in this step; f is the fetch's record
FetchOf(c) ==
  LET resp == contexts'[c].outbox[Len(contexts'[c].outbox)]
  IN contexts[c].fetches[CHOOSE i \in 1..Len(contexts[c].fetches) :
                           contexts[c].fetches[i].id = resp.id]

Settles(c) == Len(contexts'[c].fetches) = Len(contexts[c].fetches) - 1

\* C17: a request that is not a GET with useCache neither is answered from
\* the cache nor changes it, when it is received and when its network call
\* settles; every cache key is a GET key and every entry was stored for a
\* GET request with useCache that went to the network no later than the
\* entry's timestamp.
C17_OnlyCacheableTouchCache ==
  [][ \A c \in 1..Len(contexts) :
        Len(contexts') = Len(contexts) =>
          /\ (/\ Receives(c)
               /\ Received(c).action = "request"
               /\ ~Cacheable(Received(c).payload))
                 => /\ contexts'[c].apiCache = contexts[c].apiCache
                    /\ contexts'[c].outbox = contexts[c].outbox
                    /\ Len(contexts'[c].fetches) = Len(contexts[c].fetches) + 1
          /\ (Settles(c) /\ ~Cacheable(FetchOf(c).request))
               => contexts'[c].apiCache = contexts[c].apiCache
          /\ \A k \in 1..Len(contexts'[c].apiCache) :
               LET e == contexts'[c].apiCache[k]
               IN /\ e.key[1] = "GET"
                  /\ \E j \in 1..Len(contexts'[c].served) :
                       LET sv == contexts'[c].served[j]
                       IN /\ Cacheable(sv.request)
                          /\ cacheKeyOf(sv.request.method, sv.request.url) = e.key
                          /\ sv.network
                          /\ sv.at <= e.timestamp ]_vars

\* a cached GET, a POST sent with useCache and a GET without useCache were
\* all answered from the network and the cache holds the one entry
C17_Witness ==
  \E c \in 1..Len(contexts) :
    LET ctx == contexts[c]
    IN /\ Len(ctx.served) = 3
       /\ ctx.fetches = <<>>
       /\ Len(ctx.apiCache) = 1
       /\ Cacheable(ctx.served[1].request)
       /\ \E k \in 2..3 : ctx.served[k].request.method = "POST"
                          /\ ctx.served[k].request.useCache
       /\ \E k \in 2..3 : ctx.served[k].request.method = "GET"
                          /\ ~ctx.served[k].request.useCache
       /\ \A k \in 1..3 : ctx.served[k].network
       /\ Len(ctx.outbox) = 4
       /\ \A k \in 2..4 : Get(ctx.outbox[k].result, "success") = Bool(TRUE)

\* the envelopes context c posts in this step
PostedNow(c) ==
  SubSeq(contexts'[c].outbox, Len(contexts[c].outbox) + 1,
         Len(contexts'[c].outbox))

\* C18: the worker answers every message it takes from its inbox with
\* exactly one envelope carrying the message's id: at once, or, for a
\* request that goes to the network, when the network call settles.
C18_OneResponsePerMessage ==
  [][ \A c \in 1..Len(contexts) :
        Len(contexts') = Len(contexts) =>
          /\ Receives(c) =>
               \/ /\ Len(PostedNow(c)) = 1
                  /\ PostedNow(c)[1].id = Received(c).id
                  /\ contexts'[c].fetches = contexts[c].fetches
               \/ /\ Received(c).action = "request"
                  /\ PostedNow(c) = <<>>
                  /\ contexts'[c].fetches =
                       Append(contexts[c].fetches,
                              [id |-> Received(c).id,
                               request |-> Received(c).payload])
          /\ Settles(c) =>
               /\ Len(PostedNow(c)) = 1
               /\ \E i \in 1..Len(contexts[c].fetches) :
                    contexts[c].fetches[i].id = PostedNow(c)[1].id ]_vars

\* what the claim's priority order selects for the options
Given(options, field) == Get(options, field) # Undef

PurgeMode(options) ==
  IF Given(options, "url") THEN "url"
  ELSE IF Given(options, "pattern") THEN "pattern"
  ELSE IF TypeOf(Get(options, "olderThan")) = "number" THEN "age"
  ELSE "all"

\* the cache entry e survives the purge in the given mode
Survives(e, options, time) ==
  CASE PurgeMode(options) = "url" ->
         e.key # cacheKeyOf("GET", Get(options, "url").v)
    [] PurgeMode(options) = "pattern" ->
         ~regexTest(Get(options, "pattern").v, e.key)
    [] PurgeMode(options) = "age" ->
         e.timestamp >= time - Get(options, "olderThan").v
    [] OTHER -> FALSE

\* C19: a purgeCache message is handled in exactly one mode, the first that
\* applies of url, pattern, olderThan (a number), whole cache: the entries
\* left are those that survive that mode, as they were.
C19_PurgeModeByPriority ==
  [][ \A c \in 1..Len(contexts) :
        (/\ Len(contexts') = Len(contexts)
         /\ Receives(c)
         /\ Received(c).action = "purgeCache")
        => contexts'[c].apiCache =
             SelectSeq(contexts[c].apiCache,
                       LAMBDA e : Survives(e, Received(c).payload, now)) ]_vars

\* C20: purgeCache with a url removes the entry keyed GET:<url> and leaves
\* every other entry as it was; purgeCache with no options empties the
\* cache and returns the keys that were present.
C20_PurgeUrlAndPurgeAll ==
  [][ \A c \in 1..Len(contexts) :
        (/\ Len(contexts') = Len(contexts)
         /\ Receives(c)
         /\ Received(c).action = "purgeCache")
        => LET options == Received(c).payload
               before == contexts[c].apiCache
               after == contexts'[c].apiCache
           IN /\ Truthy(Get(options, "url")) =>
                   LET key == cacheKeyOf("GET", Get(options, "url").v)
                   IN /\ ~cacheHas(after, key)
                      /\ after = SelectSeq(before, LAMBDA e : e.key # key)
              /\ DOMAIN options.v = {} =>
                   /\ after = <<>>
                   /\ PostedNow(c) =
                        <<Response(Received(c).id,
                                   Obj([purged |-> Arr(cacheKeys(before))]))>> ]_vars

\* two urls were cached, then purgeCache({url}) for the first left only
\* the entry of the second
C20_Witness ==
  \E c \in 1..Len(contexts) :
    LET ctx == contexts[c]
        key1 == cacheKeyOf("GET", apiUrl("incidents"))
        key2 == cacheKeyOf("GET", apiUrl("incidents/1"))
    IN /\ Len(ctx.outbox) = 4
       /\ Get(ctx.outbox[2].result, "success") = Bool(TRUE)
       /\ Get(ctx.outbox[3].result, "success") = Bool(TRUE)
       /\ {ctx.served[k].request.url : k \in 1..Len(ctx.served)}
            = {apiUrl("incidents"), apiUrl("incidents/1")}
       /\ ctx.outbox[4].result = Obj([purged |-> Arr(<<key1>>)])
       /\ cacheKeys(ctx.apiCache) = <<key2>>

\* the elements of a JavaScript array value
ArrElements(a) == { a.v[i] : i \in 1..Len(a.v) }

\* C21: in every mode the list purgeCache returns holds exactly the keys
\* that were in the cache before the call and are absent after it.
C21_PurgedIsEvicted ==
  [][ \A c \in 1..Len(contexts) :
        (/\ Len(contexts') = Len(contexts)
         /\ Receives(c)
         /\ Received(c).action = "purgeCache"
         /\ PostedNow(c) # <<>>)
        => LET before == SetElements(cacheKeys(contexts[c].apiCache))
               after == SetElements(cacheKeys(contexts'[c].apiCache))
           IN ArrElements(Get(PostedNow(c)[1].result, "purged"))
                = before \ after ]_vars

-----------------------------------------------------------------------------
(* Claims about the persisted preference *)

IsSetDarkMode(id) ==
  Get(dispatches[id].action, "type") = Str(ActionTypes.SET_DARK_MODE)

\* C22: when the pipeline of a setDarkMode(v) dispatch ends, and no other
\* setDarkMode dispatch was issued after it, localStorage holds String(v)
\* under darkMode; a step changes localStorage only as part of the pipeline
\* of a setDarkMode dispatch.
C22_DarkModePersisted ==
  [][ /\ \A id \in 1..Len(dispatches) :
           (/\ IsSetDarkMode(id)
            /\ PipelineActive(id) /\ ~PipelineActive(id)'
            /\ \A j \in 1..Len(dispatches) : IsSetDarkMode(j) => j <= id)
           => localStorage' = JsString(Get(dispatches[id].action, "payload"))
      /\ localStorage' # localStorage =>
           \E id \in 1..Len(dispatches) :
             IsSetDarkMode(id) /\ dispatches'[id] # dispatches[id] ]_vars

-----------------------------------------------------------------------------
(* Claims about page navigation *)

\* the requests that were awaiting their response when the page changed
Navigated == { r \in 1..Len(requests) : requests[r].navigated }

\* the promise request() returned for facade call r is settled
SettledForCaller(r) ==
  /\ r \in 1..Len(requests)
  /\ requests[r].pc = "done"
  /\ requests[r].outcome \in {"resolved", "rejected"}

-----------------------------------------------------------------------------
(* Claims about the error taxonomy *)

\* the response of facade call r is a non-success HTTP response
HttpFailure(r) ==
  LET c == calls[requests[r].call]
  IN /\ requests[r].op \notin CacheOps
     /\ c.status = "resolved"
     /\ ~Truthy(Get(c.value, "success"))
     /\ Get(c.value, "status") # Undef

\* the code of the setError action dispatched as dispatch id
ErrorCode(id) == Get(Get(dispatches[id].action, "payload"), "code")

\* C24: a finished facade call answered with a non-success HTTP response
\* has rejected its caller with an error carrying the HTTP status, and every
\* error it dispatched to the store carries that status as its code;
\* NETWORK_ERROR is the code only of calls that were not answered with an
\* HTTP status.
C24_HttpErrorByStatus ==
  \A r \in Finished :
    LET status == Get(calls[requests[r].call].value, "status")
        codes == { ErrorCode(requests[r].recorded[k]) :
                     k \in 1..Len(requests[r].recorded) }
    IN /\ HttpFailure(r) =>
            /\ requests[r].outcome = "rejected"
            /\ Get(requests[r].value, "status") = status
            /\ codes = {status}
       /\ Str("NETWORK_ERROR") \in codes => ~HttpFailure(r)

-----------------------------------------------------------------------------
(* Claims about notifications *)

IsAddNotification(id) ==
  Get(dispatches[id].action, "type") = Str(ActionTypes.ADD_NOTIFICATION)

ServiceSubscribed == \E f \in ServiceSubscribers : SetHas(subscribers, f)

\* the pipeline of dispatch id ends in this step
PipelineEnds(id) == PipelineActive(id) /\ ~PipelineActive(id)'

\* C25: the notifications slice gets shorter only when the pipeline of a
\* removeNotification dispatch ends; when the pipeline of a dispatch that
\* adds a notification ends while the notification service is subscribed,
\* the notification is in the slice and the service has shown it.
C25_NotificationsGrowAndAreShown ==
  [][ /\ Len(state'.notifications.v) < Len(state.notifications.v) =>
           \E id \in 1..Len(dispatches) :
             /\ PipelineEnds(id)
             /\ Get(dispatches[id].action, "type")
                  = Str(ActionTypes.REMOVE_NOTIFICATION)
      /\ \A id \in 1..Len(dispatches) :
           (IsAddNotification(id) /\ PipelineEnds(id) /\ ServiceSubscribed)
           => LET n == Get(dispatches[id].action, "payload")
              IN /\ \E k \in 1..Len(state'.notifications.v) :
                      Get(state'.notifications.v[k], "id") = Get(n, "id")
                 /\ dispatches'[id].shown = <<n>> ]_vars

\* C26: the notifications the show*Notification creators produce carry
\* pairwise distinct ids.
C26_NotificationIdsDistinct ==
  \A i, j \in 1..Len(dispatches) :
    (i # j /\ IsAddNotification(i) /\ IsAddNotification(j))
    => Get(Get(dispatches[i].action, "payload"), "id")
         # Get(Get(dispatches[j].action, "payload"), "id")

-----------------------------------------------------------------------------
(* Claims about the reducers *)

TypeOfAction(a) == Get(a, "type").v

\* the composed reducer is applied to action Reduced in this step
Reduces == lastCall'.op = "reduce" /\ actionCounter' = actionCounter + 1
Reduced == lastCall'.arg

\* new is {...old, ...patch}
IsMerge(new, old, patch) ==
  /\ new.k = "object"
  /\ DOMAIN new.v = (DOMAIN old.v) \cup (DOMAIN patch.v)
  /\ \A p \in DOMAIN patch.v : new.v[p] = patch.v[p]
  /\ \A p \in (DOMAIN old.v) \ (DOMAIN patch.v) : new.v[p] = old.v[p]

\* C27: updateIncident(patch) merges the patch into the incidents whose id
\* is patch.id, leaves the other incidents as they were, in place, and
\* merges the patch into currentIncident when it has that id.
C27_UpdateMergesById ==
  [][ (Reduces /\ TypeOfAction(Reduced) = ActionTypes.UPDATE_INCIDENT)
      => LET patch == Get(Reduced, "payload")
             before == state.incidents.v
             after == state'.incidents.v
             current == state.currentIncident
         IN /\ Len(after) = Len(before)
            /\ \A k \in 1..Len(before) :
                 IF Get(before[k], "id") = Get(patch, "id")
                 THEN IsMerge(after[k], before[k], patch)
                 ELSE after[k] = before[k]
            /\ IF current.k = "object" /\ Get(current, "id") = Get(patch, "id")
               THEN IsMerge(state'.currentIncident, current, patch)
               ELSE state'.currentIncident = current ]_vars

\* after setIncidents, setCurrentIncident of incident 1 and
\* updateIncident({id: 1, status: resuelto}): incident 1 is resuelto in both
\* slices and incident 2 is as it was
C27_Witness ==
  /\ lastCall.op = "reduce"
  /\ lastCall.arg = createAction(ActionTypes.UPDATE_INCIDENT,
                                 Incident(1, "resuelto"))
  /\ state.incidents = Arr(<<Incident(2, "pendiente"), Incident(1, "resuelto")>>)
  /\ state.currentIncident = Incident(1, "resuelto")

UpdateActions ==
  { a \in ReducerInputs : TypeOfAction(a) = ActionTypes.UPDATE_INCIDENT }

\* C28: for every state, applying an updateIncident action twice gives the
\* incidents and currentIncident slices that applying it once gives.
C28_UpdateIdempotent ==
  \A a \in UpdateActions :
    LET once == reducer(state, a)
        twice == reducer(once, a)
    IN /\ twice.incidents = once.incidents
       /\ twice.currentIncident = once.currentIncident

\* an update that changes the incidents slice and currentIncident of the
\* state, which has a second incident the update does not touch
C28_Witness ==
  \E a \in UpdateActions :
    /\ reducer(state, a).incidents # state.incidents
    /\ reducer(state, a).currentIncident # state.currentIncident
    /\ Len(state.incidents.v) = 2

\* C29: addIncident(X) yields the previous incidents, in their order,
\* followed by X; an action other than setIncidents, addIncident,
\* updateIncident and deleteIncident leaves the incidents slice as it was.
C29_AddAppends ==
  [][ Reduces =>
        /\ TypeOfAction(Reduced) = ActionTypes.ADD_INCIDENT =>
             state'.incidents =
               Arr(Append(state.incidents.v, Get(Reduced, "payload")))
        /\ TypeOfAction(Reduced) \notin
             { ActionTypes.SET_INCIDENTS, ActionTypes.ADD_INCIDENT,
               ActionTypes.UPDATE_INCIDENT, ActionTypes.DELETE_INCIDENT } =>
             state'.incidents = state.incidents ]_vars

\* addIncident was applied to a slice of two incidents
C29_Witness ==
  /\ lastCall.op = "reduce"
  /\ TypeOfAction(lastCall.arg) = ActionTypes.ADD_INCIDENT
  /\ state.incidents =
       Arr(<<Incident(2, "pendiente"), Incident(1, "pendiente"),
             Incident(3, "en proceso")>>)

\* the action types a slice reducer has a case for
Recognized ==
  { ActionTypes[t] : t \in (DOMAIN ActionTypes) \ {"LOAD_INCIDENTS"} }

Slices == {"loading", "incidents", "currentIncident", "notifications",
           "error", "ui"}

\* C30: the composed reducer carries _actionLog over for every action, and
\* for an action type no slice reducer recognizes every slice of the
\* resulting state equals its previous value.
C30_UnrecognizedIsIdentity ==
  [][ Reduces =>
        /\ state'._actionLog = state._actionLog
        /\ DOMAIN state' = DOMAIN state
        /\ TypeOfAction(Reduced) \notin Recognized =>
             \A k \in Slices : state'[k] = state[k] ]_vars

\* an unrecognized action was applied to a state with incidents, a current
\* incident and an action log
C30_Witness ==
  /\ lastCall.op = "reduce"
  /\ TypeOfAction(lastCall.arg) \notin Recognized
  /\ state.incidents.v # <<>>
  /\ state.currentIncident # Null
  /\ state._actionLog # <<>>

-----------------------------------------------------------------------------
(* Claims about concurrent requests in the worker *)

KeyOf(request) == cacheKeyOf(request.method, request.url)

\* the network calls of context ctx for cache key that have completed, in
\* the order of their completion
CompletedFor(ctx, key) ==
  SelectSeq(ctx.completed,
            LAMBDA d : Cacheable(d.request) /\ KeyOf(d.request) = key)

InFlightFor(ctx, key) ==
  { i \in 1..Len(ctx.fetches) :
      Cacheable(ctx.fetches[i].request) /\ KeyOf(ctx.fetches[i].request) = key }

\* the position in ctx.served of the request with the given id
TakenAs(ctx, id) == CHOOSE j \in 1..Len(ctx.served) : ctx.served[j].id = id

\* the network call of d was still in flight when that of e was started
Overlap(ctx, d, e) ==
  /\ d.id # e.id
  /\ TakenAs(ctx, e.id) <= d.taken
  /\ TakenAs(ctx, d.id) <= e.taken

\* context ctx has completed concurrent network calls for key, none is in
\* flight, and last is the one that completed last
AllCompleted(ctx, key, last) ==
  LET done == CompletedFor(ctx, key)
  IN /\ InFlightFor(ctx, key) = {}
     /\ Len(done) >= 2
     /\ last = done[Len(done)]
     /\ \E k \in 1..(Len(done) - 1) : Overlap(ctx, done[k], last)

CacheKeys == { KeyOf(p) : p \in RequestPayloads }

\* a cacheable request that finds no fresh entry starts a network call of
\* its own, whatever calls are in flight
NotCoalesced ==
  [][ \A c \in 1..Len(contexts) :
        (/\ Len(contexts') = Len(contexts)
         /\ Receives(c)
         /\ Received(c).action = "request"
         /\ Cacheable(Received(c).payload)
         /\ ~Fresh(contexts[c], Received(c).payload, now))
        => /\ contexts'[c].fetches =
                Append(contexts[c].fetches,
                       [id |-> Received(c).id, request |-> Received(c).payload])
           /\ PostedNow(c) = <<>> ]_vars

-----------------------------------------------------------------------------
(* Claims about the order of the steps of a dispatch *)

\* a dispatch call was accepted in this step (by a caller, or by a
\* subscriber during a notification pass)
Stamps == Len(dispatches') = Len(dispatches) + 1

\* the record of the dispatch accepted in this step
Stamped == dispatches'[Len(dispatches')]

\* the _id stamped on dispatch j
IdOf(ds, j) == Get(ds[j].action, "_id").v

\* the reducer runs for dispatch id in this step
Applies(id) ==
  /\ id \in 1..Len(dispatches)
  /\ dispatches[id].phase = "pending"
  /\ dispatches'[id].phase = "applied"

\* C32: within one dispatch every registered middleware is started with the
\* stamped action before the reducer runs, the reducer runs only after all
\* of them have settled, the state is replaced before any subscriber is
\* invoked (each is called with the new state), and the stamped sequence id
\* is strictly greater than that of every earlier dispatch call
C32_DispatchOrder ==
  [][ /\ Stamps =>
          /\ Stamped.kinds = middlewares
          /\ Len(Stamped.mw) = Len(middlewares)
          /\ \A i \in 1..Len(Stamped.mw) : Stamped.mw[i] = "pending"
          /\ Stamped.phase = "pending"
          /\ Get(Stamped.action, "_id") = Num(actionCounter')
          /\ \A j \in 1..Len(dispatches) :
                IdOf(dispatches', j) < IdOf(dispatches', Len(dispatches'))
      /\ \A id \in 1..Len(dispatches) :
          Applies(id) =>
            /\ \A i \in 1..Len(dispatches[id].mw) :
                  dispatches[id].mw[i] = "fulfilled"
            /\ \A f \in (DOMAIN state) \ {"_actionLog"} :
                  state'[f] = reducer(state, dispatches[id].action)[f]
            /\ Len(lastPass') = 1
            /\ lastPass'[1].state = state'
            /\ Len(lastPass'[1].invoked) = Len(subscribers)
            /\ \A i \in 1..Len(lastPass'[1].invoked) :
                  lastPass'[1].invoked[i].arg = state'
    ]_vars

\* the second of two dispatches went through a registered middleware, was
\* reduced to a new state, and a subscriber was called with that state
C32_Witness ==
  /\ Len(dispatches) >= 2
  /\ dispatches[2].phase = "applied"
  /\ Len(dispatches[2].kinds) >= 1
  /\ dispatches[2].post = <<state>>
  /\ dispatches[2].pre # dispatches[2].post
  /\ Len(lastPass) = 1
  /\ Len(lastPass[1].invoked) >= 1
  /\ lastPass[1].invoked[1].arg = state

\* C33: the persistence middleware of the exported store fulfils for every
\* action, so every accepted dispatch whose promise reactions have all run
\* has reached the reducer and the notification of the subscribers
C33_PersistenceFulfils ==
  \A id \in 1..Len(dispatches) :
    /\ \A i \in 1..Len(dispatches[id].kinds) :
          dispatches[id].kinds[i] = "persist" =>
            dispatches[id].mw[i] # "rejected"
    /\ Settled(id) => dispatches[id].phase = "applied"

-----------------------------------------------------------------------------
(* Claims about overlapping dispatches *)

\* the orders in which the accepted dispatches can have completed
CompletionOrders ==
  { o \in [1..Len(dispatches) -> 1..Len(dispatches)] :
      \A i, j \in 1..Len(dispatches) : i # j => o[i] # o[j] }

\* a state without its action log
WithoutLog(st) == [f \in (DOMAIN st) \ {"_actionLog"} |-> st[f]]

\* dispatch id had the reducer applied to the state `from`, giving `to`
AppliedTo(id, from, to) ==
  /\ dispatches[id].phase = "applied"
  /\ dispatches[id].pre = <<from>>
  /\ dispatches[id].post = <<to>>
  /\ WithoutLog(to) = WithoutLog(reducer(from, dispatches[id].action))

\* C34: when dispatches overlap no update is lost: once every dispatch has
\* settled, the state is the result of folding the reducer over all the
\* dispatched actions in the order they completed, each applied to the
\* state the one before it left
C34_NoLostUpdate ==
  (\A id \in 1..Len(dispatches) : Settled(id)) =>
    \E o \in CompletionOrders :
      \A i \in 1..Len(dispatches) :
        AppliedTo(o[i],
                  IF i = 1 THEN initial ELSE dispatches[o[i - 1]].post[1],
                  IF i = Len(dispatches) THEN state
                  ELSE dispatches[o[i + 1]].pre[1])

-----------------------------------------------------------------------------
(* Claims about the settlement of bridge calls *)

\* call i was posted to a registered worker and its promise is unsettled
Unsettled(i) == i \in 1..Len(calls) /\ calls[i].status = "pending"

\* the promise of call i was resolved or rejected
SettledCall(i) == i \in 1..Len(calls) /\ calls[i].status # "pending"

\* C35: every promise sendToWorker returns for a registered worker
\* eventually settles, by a response or by its timeout, also when
\* terminateWorker or terminateAllWorkers runs while it is pending
C35_EveryCallSettles ==
  \A i \in 1..MaxCalls : Unsettled(i) ~> SettledCall(i)

\* the main thread has handled the init message of context c
Announced(c) == InitMessage \in contexts[c].delivered

\* C36: a worker name is in the registry only if that worker has announced
\* readiness with its init message
C36_RegisteredOnlyWhenReady ==
  \A n \in DOMAIN workers : Announced(workers[n])

-----------------------------------------------------------------------------
(* Claims about the incident list after a mutation *)

\* the request the facade posts for getIncidents()
IsGetIncidents(request) ==
  /\ request.method = "GET"
  /\ request.url = apiUrl("incidents")
  /\ request.useCache

\* the k-th completed network call of ctx is a mutation of the incidents
\* (create, update or delete) that the server accepted
MutationDone(ctx, k) ==
  /\ ctx.completed[k].request.method # "GET"
  /\ ctx.completed[k].outcome.kind = "ok"

\* the k-th completed network call of ctx fetched the list from the server
ListFetched(ctx, k) ==
  /\ IsGetIncidents(ctx.completed[k].request)
  /\ ctx.completed[k].outcome.kind = "ok"

\* C37: after a successful createIncident, updateIncidentStatus or
\* deleteIncident, a getIncidents() is not answered from a cache entry
\* written before the mutation: it goes to the network, or the list was
\* fetched from the server again in between
C37_ListReloadedAfterMutation ==
  \A c \in 1..Len(contexts) :
    LET ctx == contexts[c]
    IN \A j \in 1..Len(ctx.served), m \in 1..Len(ctx.completed) :
         (/\ IsGetIncidents(ctx.served[j].request)
          /\ MutationDone(ctx, m)
          /\ ctx.completed[m].taken < j)
         => \/ ctx.served[j].network
            \/ \E g \in (m + 1)..Len(ctx.completed) :
                 ListFetched(ctx, g) /\ ctx.completed[g].taken < j

-----------------------------------------------------------------------------
(* Claims about the toasts of the notification service *)

\* the dispatches during whose notification pass the service showed n
ShownBy(n) == { id \in 1..Len(dispatches) : dispatches[id].shown = <<n>> }

\* the dispatches that appended notification n to the slice
AppendedBy(n) ==
  { id \in 1..Len(dispatches) :
      /\ IsAddNotification(id)
      /\ dispatches[id].phase = "applied"
      /\ Get(dispatches[id].action, "payload") = n }

-----------------------------------------------------------------------------
(* Claims about the delete flow *)

\* the text of an id: what the incident-id attribute of an element holds
\* for it
IdText(x) == IF x.k = "number" THEN ToString(x.v) ELSE x.v

\* a and b denote the same incident
SameId(a, b) ==
  /\ a.k \in {"number", "string"}
  /\ b.k \in {"number", "string"}
  /\ IdText(a) = IdText(b)

\* C39: after deleteIncident(id) is reduced, the incidents slice holds no
\* incident with that id and currentIncident is null if it was that
\* incident, also when the slice holds numeric ids and the dispatched id is
\* the string of the element's attribute
C39_DeleteRemovesIncident ==
  [][ (Reduces /\ TypeOfAction(Reduced) = ActionTypes.DELETE_INCIDENT) =>
        LET id == Get(Reduced, "payload")
        IN /\ \A i \in 1..Len(state'.incidents.v) :
                ~SameId(Get(state'.incidents.v[i], "id"), id)
           /\ SameId(Get(state.currentIncident, "id"), id)
                => state'.currentIncident = Null
    ]_vars
====
